---------------------------- MODULE Spec2Model ----------------------------
(***************************************************************************)
(* Document search engine of the platform (searchService: searchDocuments, *)
(* matchByType, computeMatchInfo, splitIntoSentences, highlightAll,        *)
(* getSearchSuggestions), the AdvancedSearch component that calls it, and  *)
(* the upload path: the validation of files added to the upload queue      *)
(* (FileValidator), the queue and the uploads of the useFileUpload hook,    *)
(* FileService.uploadFile with its activeUploads map, uploadWithRetry, and  *)
(* SimpleFileService.uploadFileComplete with its placeholder document.      *)
(*                                                                         *)
(* A JavaScript string is a sequence of characters; a character is a TLA+  *)
(* string.  Offsets are 0-based as in the source: offset p is element p+1. *)
(***************************************************************************)
EXTENDS Integers, Sequences, FiniteSets, TLC

VARIABLES
    mText,        \* matcher harness: the field value handed to the matcher
    mQuery,       \* matcher harness: the query
    mPc,          \* matcher harness: "input" | "applied"
    mMatched,     \* matcher harness: matchByType per match mode
    mInfo,        \* matcher harness: computeMatchInfo per match mode
    mSentences,   \* matcher harness: splitIntoSentences of the field
    mOnce,        \* matcher harness: highlightAll(text, q)
    mTwice,       \* matcher harness: highlightAll(highlightAll(text, q), q)
    store,        \* the documents collection, ordered by uploadedAt descending
    storeUp,      \* whether getDocs succeeds
    blobs,        \* per record, the blob its pointer names: [up, text]
    searchQuery,  \* searchDocuments: argument
    searchType,   \* searchDocuments: argument
    searchField,  \* searchDocuments: argument
    pc,           \* searchDocuments: "idle" | "called" | "fetching" | "hydrating" | "done"
    docs,         \* searchDocuments: the fetched records (mutated by hydration)
    task,         \* searchDocuments: per record, the state of its hydration task
    candidates,   \* searchDocuments: the filtered records
    ranked,       \* searchDocuments: the items of fuse.search(q)
    ordered,      \* searchDocuments: the sequence that is enriched
    result,       \* searchDocuments: the value returned
    outcome,      \* searchDocuments: "pending" | "returned" | "thrown"
    fetches,      \* number of getDocs calls issued
    sgPartial,    \* getSearchSuggestions: argument
    sgPc,         \* getSearchSuggestions: "idle" | "called" | "fetching" | "done"
    sgResult,     \* getSearchSuggestions: the value returned
    sgOutcome,    \* getSearchSuggestions: "pending" | "returned" | "thrown"
    uiQuery,      \* AdvancedSearch: the searchQuery state (the input box)
    uiSearching,  \* AdvancedSearch: the isSearching state
    uiRequests,   \* AdvancedSearch: the searchDocuments calls issued, in order
    uiResults,    \* Home: the searchResults state (what SearchResults shows)
    uiRecent,     \* AdvancedSearch: the recentSearches state
    uiShownOf,    \* history: the call whose results were handed over last
    files,        \* useFileUpload: the files state (the upload queue)
    error,        \* useFileUpload: the error state
    globalError,  \* useFileUpload: the globalError state
    isOnline,     \* useFileUpload: the isOnline state
    uploadStats,  \* useFileUpload: the uploadStats state (total, totalSize)
    addResult,    \* useFileUpload: what the last addFiles call returned
    nextId,       \* useFileUpload: the number of ids handed out so far, plus one
    isUploading,  \* useFileUpload: the isUploading state
    activeUploadsRef, \* useFileUpload: the keys of activeUploadsRef.current
    calls,        \* useFileUpload: the uploadFile calls waiting for the service
    timers,       \* useFileUpload: the retry timers set by uploadFile
    aborted,      \* history: the ids for which abortUpload returned true
    activeUploads, \* FileService: the keys of the activeUploads map
    uploadPc,     \* FileService.uploadFile: per call, where the call stands
    attempt,      \* FileService.uploadWithRetry: the loop variable
    retryPc,      \* FileService.uploadWithRetry: where the call stands
    attemptErrors, \* history: the error each failed attempt threw
    retryDelays,  \* history: the delay waited before each further attempt
    placeholders, \* SimpleFileService: per document id, its processingStatus and downloadURL
    simplePc      \* SimpleFileService.uploadFileComplete: per call, where the call stands

matchVars == <<mText, mQuery, mPc, mMatched, mInfo, mSentences, mOnce, mTwice>>
envVars == <<store, storeUp, blobs>>
searchVars == <<searchQuery, searchType, searchField, pc, docs, task,
                candidates, ranked, ordered, result, outcome, fetches>>
suggestVars == <<sgPartial, sgPc, sgResult, sgOutcome>>
uiVars == <<uiQuery, uiSearching, uiRequests, uiResults, uiRecent, uiShownOf>>
queueVars == <<files, error, globalError, isOnline, uploadStats, addResult, nextId>>
transferVars == <<isUploading, activeUploadsRef, calls, timers, aborted>>
uploadVars == <<queueVars, transferVars>>
\* the state of the callers and of the upload queue, which the search
\* service does not touch
serviceVars == <<activeUploads, uploadPc>>
retryVars == <<attempt, retryPc, attemptErrors, retryDelays>>
simpleVars == <<placeholders, simplePc>>
\* the state of the upload services
backendVars == <<serviceVars, retryVars, simpleVars>>
otherVars == <<suggestVars, uiVars, uploadVars, backendVars>>
vars == <<matchVars, envVars, searchVars, otherVars>>

-----------------------------------------------------------------------------
(* Bounds of the model *)

MaxTextLen == 3
MaxQueryLen == 2
MaxDocs == 2

-----------------------------------------------------------------------------
(* Characters *)

\* U+0130, LATIN CAPITAL LETTER I WITH DOT ABOVE: its lower case is the two
\* characters U+0069 U+0307 (Unicode SpecialCasing, followed by toLowerCase).
chIDot == "U+0130"
\* U+0307, COMBINING DOT ABOVE: general category Mn (not \p{L}, \p{N}, \p{P}, \s)
chCombDot == "U+0307"

MatchTypes == {"contains", "startsWith", "endsWith"}

\* [.!?]
IsTerminal(c) == c \in {".", "!", "?"}
\* \s
IsSpace(c) == c \in {" ", "\n"}
\* \p{P}
IsPunct(c) == c \in {".", "!", "?", ","}
\* [\p{L}\p{N}]
IsAlphaNum(c) == c \in {"a", "A", "b", "i", chIDot, "1"}
\* [^.!?\n]
IsBody(c) == c \notin {".", "!", "?", "\n"}

\* String.prototype.toLowerCase on one character
LowerChar(c) ==
    CASE c = "A" -> <<"a">>
      [] c = chIDot -> <<"i", chCombDot>>
      [] OTHER -> <<c>>

RECURSIVE ToLowerCase(_)
ToLowerCase(s) ==
    IF s = <<>> THEN <<>> ELSE LowerChar(Head(s)) \o ToLowerCase(Tail(s))

\* a mutant of normalize: no case folding
normalizeNoFold(str) == str

normalize(str) == ToLowerCase(str)

\* the least (greatest) element of a non-empty set of numbers
MinOf(S) == CHOOSE e \in S : \A f \in S : e <= f
MaxOf(S) == CHOOSE e \in S : \A f \in S : f <= e

\* String.prototype.slice(from, to), 0 <= from <= to <= length
Slice(s, from, to) == SubSeq(s, from + 1, to)

FirstOrNone(hits) == IF hits = {} THEN -1 ELSE MinOf(hits)

\* String.prototype.indexOf: the first offset at which n occurs in h, or -1
IndexOf(h, n) ==
    FirstOrNone({i \in 0..(Len(h) - Len(n)) : Slice(h, i, i + Len(n)) = n})

Includes(h, n) == IndexOf(h, n) >= 0
StartsWith(h, n) == Len(n) <= Len(h) /\ Slice(h, 0, Len(n)) = n
EndsWith(h, n) == Len(n) <= Len(h) /\ Slice(h, Len(h) - Len(n), Len(h)) = n

\* the character classes of the regular expressions
InClass(cls, c) ==
    CASE cls = "space" -> IsSpace(c)
      [] cls = "punctOrSpace" -> IsPunct(c) \/ IsSpace(c)
      [] cls = "terminal" -> IsTerminal(c)
      [] cls = "body" -> IsBody(c)

\* the end of the run of cls characters that starts at offset from
RunEnd(s, from, cls) ==
    MinOf({e \in from..Len(s) : e = Len(s) \/ ~InClass(cls, s[e + 1])})

\* s without its leading (trailing) run of cls characters
StripStart(s, cls) == Slice(s, RunEnd(s, 0, cls), Len(s))
StripEnd(s, cls) ==
    Slice(s, 0, MinOf({e \in 0..Len(s) : \A k \in e..(Len(s) - 1) : InClass(cls, s[k + 1])}))

\* String.prototype.trim
Trim(s) == StripEnd(StripStart(s, "space"), "space")

\* a mutant of TrimStartPunct: only white space is stripped
TrimStartSpaceOnly(s) == StripStart(s, "space")

\* s.replace(TRIM_START_PUNCT_RE, '')
TrimStartPunct(s) == StripStart(s, "punctOrSpace")

\* a mutant of TrimEndPunct: nothing is stripped
TrimEndNothing(s) == s

\* s.replace(TRIM_END_PUNCT_RE, '')
TrimEndPunct(s) == StripEnd(s, "punctOrSpace")

-----------------------------------------------------------------------------
(* splitIntoSentences: the expression of line 26, a body of one or more    *)
(* characters other than . ! ? and newline, then any number of . ! ?, then  *)
(* white space or the end of the input                                     *)

NoMatch == [found |-> FALSE, start |-> 0, end |-> 0, lastIndex |-> 0]

\* a match whose first group is [s, e): the second group is the white space
\* that follows (all of it) or the empty string at the end of the input
MatchTo(input, s, e) ==
    [found |-> TRUE, start |-> s, end |-> e, lastIndex |-> RunEnd(input, e, "space")]

\* the body cut back to the last white space inside it, if there is any
Backtracked(input, s, shorter) ==
    IF shorter = {} THEN NoMatch ELSE MatchTo(input, s, MaxOf(shorter))

MatchBody(input, s, bodyEnd, punctEnd) ==
    IF bodyEnd = s THEN NoMatch
    ELSE IF punctEnd = Len(input) \/ IsSpace(input[punctEnd + 1])
    THEN MatchTo(input, s, punctEnd)
    ELSE Backtracked(input, s, {b \in (s + 1)..(bodyEnd - 1) : IsSpace(input[b + 1])})

MatchFrom(input, s, bodyEnd) ==
    MatchBody(input, s, bodyEnd, RunEnd(input, bodyEnd, "terminal"))

\* One attempt of the expression at offset s.  The body is greedy; with the
\* whole body taken, the marks must be the whole run of marks (a shorter run
\* is followed by a mark, which is neither white space nor the end); with a
\* shorter body the next character is a body character, no mark is taken
\* and that character must be white space.
MatchAt(input, s) == MatchFrom(input, s, RunEnd(input, s, "body"))

\* re.exec(input) with re.lastIndex = from: the first offset that matches
RECURSIVE Exec(_, _)
ExecOr(input, from, m) == IF m.found THEN m ELSE Exec(input, from + 1)

Exec(input, from) ==
    IF from >= Len(input) THEN NoMatch ELSE ExecOr(input, from, MatchAt(input, from))

\* if (sentence.trim().length === 0) continue; out.push(...)
Pushed(sentence, m) ==
    IF Len(Trim(sentence)) = 0 THEN <<>>
    ELSE <<[text |-> sentence, start |-> m.start, end |-> m.end]>>

RECURSIVE SentenceLoop(_, _)
LoopBody(input, m) ==
    IF ~m.found THEN <<>>
    ELSE Pushed(Slice(input, m.start, m.end), m) \o SentenceLoop(input, m.lastIndex)

\* while ((m = re.exec(input)) !== null)
SentenceLoop(input, from) == LoopBody(input, Exec(input, from))

\* if (!out.length && input) out.push({ text: input, start: 0, end: input.length })
OrWholeInput(input, out) ==
    IF out = <<>> /\ input # <<>>
    THEN <<[text |-> input, start |-> 0, end |-> Len(input)]>>
    ELSE out

splitIntoSentences(text) == OrWholeInput(text, SentenceLoop(text, 0))

-----------------------------------------------------------------------------
(* matchByType *)

\* the test of one sentence in an anchored mode
SentenceMatches(s, n, type) ==
    IF type = "startsWith" THEN StartsWith(normalize(TrimStartPunct(s.text)), n)
    ELSE IF type = "endsWith" THEN EndsWith(normalize(TrimEndPunct(s.text)), n)
    ELSE FALSE

\* sentences.some(...)
SomeSentence(sentences, n, type) ==
    \E k \in 1..Len(sentences) : SentenceMatches(sentences[k], n, type)

MatchNormalized(h, n, type) ==
    IF n = <<>> THEN FALSE
    ELSE IF type = "contains" THEN Includes(normalize(h), n)
    ELSE SomeSentence(splitIntoSentences(h), n, type)

matchByType(haystack, needle, type) == MatchNormalized(haystack, normalize(needle), type)

-----------------------------------------------------------------------------
(* computeMatchInfo *)

\* const snippetRadius = 220
SnippetRadius == 220

\* U+2026, HORIZONTAL ELLIPSIS
chEllipsis == "U+2026"

\* <mark class="search-highlight"> and </mark>, character by character
MarkOpen ==
    <<"<", "m", "a", "r", "k", " ", "c", "l", "a", "s", "s", "=", "\"",
      "s", "e", "a", "r", "c", "h", "-", "h", "i", "g", "h", "l", "i", "g", "h", "t",
      "\"", ">">>
MarkClose == <<"<", "/", "m", "a", "r", "k", ">">>

NullInfo ==
    [isNull |-> TRUE, index |-> -1, length |-> 0, matchPercent |-> 0,
     start |-> 0, end |-> 0, snippet |-> <<>>, highlightedSnippet |-> <<>>]

\* Math.round(x / y * 100) for x >= 0, y > 0
RoundPercent(x, y) == (200 * x + y) \div (2 * y)

\* idx = s.start + removed;  idx = s.start + rightTrim.length - q.length
SentenceOffset(s, q, type) ==
    IF type = "startsWith"
    THEN s.start + (Len(s.text) - Len(TrimStartPunct(s.text)))
    ELSE s.start + Len(TrimEndPunct(s.text)) - Len(q)

\* the for loop over the sentences: the offset computed for the first
\* sentence that satisfies the anchored test (the loop breaks there), or -1
RECURSIVE AnchoredIndex(_, _, _, _, _)
AnchoredIndex(sentences, k, q, lq, type) ==
    IF k > Len(sentences) THEN -1
    ELSE IF SentenceMatches(sentences[k], lq, type)
    THEN SentenceOffset(sentences[k], q, type)
    ELSE AnchoredIndex(sentences, k + 1, q, lq, type)

MatchIndex(hay, q, lq, type) ==
    IF type = "contains" THEN IndexOf(normalize(hay), lq)
    ELSE AnchoredIndex(splitIntoSentences(hay), 1, q, lq, type)

\* String.prototype.slice(from, to) for 0 <= from: both ends are clamped to
\* the length, and the result is empty when from >= to
ClampedSlice(s, from, to) == Slice(s, MinOf({from, Len(s)}), MinOf({to, Len(s)}))

\* start > 0 ? '…' : ''
LeadEllipsis(start) == IF start > 0 THEN <<chEllipsis>> ELSE <<>>

\* end < hay.length ? '…' : ''
TrailEllipsis(end, length) == IF end < length THEN <<chEllipsis>> ELSE <<>>

\* the value returned, of its parts; start and end are the locals of the
\* same names, kept next to the fields the code returns
InfoOf(idx, length, percent, start, end, lead, prefix, match, suffix, trail) ==
    [isNull |-> FALSE, index |-> idx, length |-> length, matchPercent |-> percent,
     start |-> start, end |-> end,
     snippet |-> lead \o prefix \o match \o suffix \o trail,
     highlightedSnippet |-> lead \o prefix \o MarkOpen \o match \o MarkClose \o suffix \o trail]

InfoWindow(hay, q, idx, start, end) ==
    InfoOf(idx, Len(q), RoundPercent(idx, Len(hay)), start, end,
           LeadEllipsis(start),
           ClampedSlice(hay, start, idx),
           ClampedSlice(hay, idx, idx + Len(q)),
           ClampedSlice(hay, idx + Len(q), end),
           TrailEllipsis(end, Len(hay)))

InfoAt(hay, q, idx) ==
    IF idx < 0 THEN NullInfo
    ELSE InfoWindow(hay, q, idx,
                    MaxOf({0, idx - SnippetRadius}),
                    MinOf({Len(hay), idx + Len(q) + SnippetRadius}))

computeMatchInfo(text, query, type) ==
    IF text = <<>> \/ query = <<>> THEN NullInfo
    ELSE InfoAt(text, query, MatchIndex(text, query, normalize(query), type))

-----------------------------------------------------------------------------
(* highlightAll *)

\* the canonical form the flags 'iu' compare characters in: simple case
\* folding, under which U+0130 folds to itself
RegexFold(c) == IF c = "A" THEN "a" ELSE c

\* the expression escapeRegExp(query) matches at offset p of text
LiteralAt(text, query, p) ==
    /\ p + Len(query) <= Len(text)
    /\ \A k \in 1..Len(query) : RegexFold(text[p + k]) = RegexFold(query[k])

\* text.replace(pattern, (m) => marker m marker), from offset p on: the
\* matches are taken left to right and do not overlap
RECURSIVE ReplaceAll(_, _, _)
ReplaceAll(text, query, p) ==
    IF p >= Len(text) THEN <<>>
    ELSE IF LiteralAt(text, query, p)
    THEN MarkOpen \o Slice(text, p, p + Len(query)) \o MarkClose
         \o ReplaceAll(text, query, p + Len(query))
    ELSE <<text[p + 1]>> \o ReplaceAll(text, query, p + 1)

highlightAll(text, query) ==
    IF text = <<>> \/ query = <<>> THEN text ELSE ReplaceAll(text, query, 0)

-----------------------------------------------------------------------------
(* searchDocuments *)

\* enriched.slice(0, 100)
ResultCap == 100

\* a mutant of hasAlphaNum: the punctuation-only test is missing
hasAlphaNumSkipped(q) == TRUE

\* /[\p{L}\p{N}]/u.test(q)
hasAlphaNum(q) == \E k \in 1..Len(q) : IsAlphaNum(q[k])

\* !doc.textContent && doc.textContentStoragePath
NeedsHydration(doc) == doc.textContent = <<>> /\ doc.textContentStoragePath # ""

\* a mutant of WriteText: the task writes the first record, not its own
WriteTextFirst(ds, i, fullText) == [ds EXCEPT ![1].textContent = fullText]

\* doc.textContent = fullText || ''
WriteText(ds, i, fullText) == [ds EXCEPT ![i].textContent = fullText]

\* a mutant of ScopeFields: scope 'all' leaves the title out
ScopeFieldsNoTitle(field) ==
    CASE field = "fileName" -> {"fileName"}
      [] field = "author" -> {"author"}
      [] field = "content" -> {"textContent"}
      [] OTHER -> {"textContent", "fileName", "author"}

\* the fields the filter tests under a field scope
ScopeFields(field) ==
    CASE field = "fileName" -> {"fileName"}
      [] field = "author" -> {"author"}
      [] field = "content" -> {"textContent"}
      [] OTHER -> {"textContent", "fileName", "author", "title"}

\* a mutant of IsCandidate: every field is tested under every scope
IsCandidateAnyField(doc, q, type, field) ==
    \E f \in {"textContent", "fileName", "author", "title"} : matchByType(doc[f], q, type)

\* the predicate of docs.filter
IsCandidate(doc, q, type, field) ==
    \E f \in ScopeFields(field) : matchByType(doc[f], q, type)

\* Array.prototype.filter: the elements that satisfy P, in their order
RECURSIVE Filter(_, _, _, _)
Filter(ds, q, type, field) ==
    IF ds = <<>> THEN <<>>
    ELSE (IF IsCandidate(Head(ds), q, type, field) THEN <<Head(ds)>> ELSE <<>>)
         \o Filter(Tail(ds), q, type, field)

\* fuse.search(q).map(r => r.item): the engine answers with the items it
\* scores within its threshold (0.2), best first: some of the records it
\* was built on, each at most once, in an order of its own.
Injective(g) == \A i, j \in DOMAIN g : i # j => g[i] # g[j]

FuseSearch(cs) ==
    {[k \in DOMAIN f |-> cs[f[k]]] :
        f \in {g \in UNION {[1..n -> 1..Len(cs)] : n \in 0..Len(cs)} : Injective(g)}}

\* a mutant of OrderedOf: no fallback to the candidates
OrderedNoFallback(rk, cs) == rk

\* ranked.length ? ranked : candidates
OrderedOf(rk, cs) == IF Len(rk) > 0 THEN rk ELSE cs

\* Math.ceil(x / y) for x >= 0, y > 0
CeilDiv(x, y) == (x + y - 1) \div y

NoPage == [kind |-> "undefined", value |-> 0]
NullPage == [kind |-> "null", value |-> 0]
PageNumber(n) == [kind |-> "number", value |-> n]

\* doc.pageCount ? Math.min(doc.pageCount, Math.max(1, Math.ceil((info.matchPercent
\* / 100) * doc.pageCount))) : null; an absent page count is 0 here (both
\* are falsy)
EstimatedPage(pageCount, matchPercent) ==
    IF pageCount = 0 THEN NullPage
    ELSE PageNumber(MinOf({pageCount, MaxOf({1, CeilDiv(matchPercent * pageCount, 100)})}))

\* the two branches of the callback of ordered.map: with a content match the
\* record gets matchIndex, matchPercent and estimatedPage, without one it
\* gets none of them
EnrichWith(doc, info) ==
    [doc |-> doc, info |-> info,
     estimatedPage |-> IF info.isNull THEN NoPage
                       ELSE EstimatedPage(doc.pageCount, info.matchPercent)]

\* ordered.map(...): the record with the match information of its content
Enrich(doc, q, type) == EnrichWith(doc, computeMatchInfo(doc.textContent, q, type))

Enriched(ds, q, type) == [k \in 1..Len(ds) |-> Enrich(ds[k], q, type)]

\* Array.prototype.slice(0, n)
Take(xs, n) == SubSeq(xs, 1, IF Len(xs) < n THEN Len(xs) ELSE n)

\* const q = (searchQuery || '').trim()
TrimmedQuery == Trim(searchQuery)

Rejected == TrimmedQuery = <<>> \/ ~hasAlphaNum(TrimmedQuery)

Settled(t) == t \in {"none", "done", "failed"}

\* if (!q) return []; if (!hasAlphaNum) return []
RejectQuery ==
    /\ pc = "called"
    /\ Rejected
    /\ pc' = "done"
    /\ result' = <<>>
    /\ outcome' = "returned"
    /\ UNCHANGED <<searchQuery, searchType, searchField, docs, task,
                   candidates, ranked, ordered, fetches>>
    /\ UNCHANGED <<matchVars, envVars, otherVars>>

\* let docs = await fetchAllDocuments(): the call is issued
BeginFetch ==
    /\ pc = "called"
    /\ ~Rejected
    /\ pc' = "fetching"
    /\ fetches' = fetches + 1
    /\ UNCHANGED <<searchQuery, searchType, searchField, docs, task,
                   candidates, ranked, ordered, result, outcome>>
    /\ UNCHANGED <<matchVars, envVars, otherVars>>

\* a mutant of FetchFailed: the rejection is swallowed and [] returned
FetchFailedReturnsEmpty ==
    /\ pc = "fetching"
    /\ ~storeUp
    /\ pc' = "done"
    /\ result' = <<>>
    /\ outcome' = "returned"
    /\ UNCHANGED <<searchQuery, searchType, searchField, docs, task,
                   candidates, ranked, ordered, fetches>>
    /\ UNCHANGED <<matchVars, envVars, otherVars>>

\* getDocs rejects: fetchAllDocuments and searchDocuments reject with it
FetchFailed ==
    /\ pc = "fetching"
    /\ ~storeUp
    /\ pc' = "done"
    /\ outcome' = "thrown"
    /\ UNCHANGED <<searchQuery, searchType, searchField, docs, task,
                   candidates, ranked, ordered, result, fetches>>
    /\ UNCHANGED <<matchVars, envVars, otherVars>>

\* getDocs resolves; docs.map starts one task per record, each running to
\* its first await: a record that needs no hydration is settled at once
FetchReturned ==
    /\ pc = "fetching"
    /\ storeUp
    /\ pc' = "hydrating"
    /\ docs' = store
    /\ task' = [i \in 1..Len(store) |->
                   IF NeedsHydration(store[i]) THEN "url" ELSE "none"]
    /\ UNCHANGED <<searchQuery, searchType, searchField,
                   candidates, ranked, ordered, result, outcome, fetches>>
    /\ UNCHANGED <<matchVars, envVars, otherVars>>

\* await getDownloadURL(...) resolves
TaskGotUrl(i) ==
    /\ pc = "hydrating"
    /\ task[i] = "url"
    /\ task' = [task EXCEPT ![i] = "body"]
    /\ UNCHANGED <<searchQuery, searchType, searchField, pc, docs,
                   candidates, ranked, ordered, result, outcome, fetches>>
    /\ UNCHANGED <<matchVars, envVars, otherVars>>

\* a mutant of TaskFailed: the rejection is not caught, Promise.all and the
\* search reject
TaskFailedPropagates(i) ==
    /\ pc = "hydrating"
    /\ task[i] \in {"url", "body"}
    /\ ~blobs[i].up
    /\ task' = [task EXCEPT ![i] = "failed"]
    /\ pc' = "done"
    /\ outcome' = "thrown"
    /\ UNCHANGED <<searchQuery, searchType, searchField, docs,
                   candidates, ranked, ordered, result, fetches>>
    /\ UNCHANGED <<matchVars, envVars, otherVars>>

\* getDownloadURL, fetch or res.text() rejects: catch {} swallows it and the
\* task ends without a write
TaskFailed(i) ==
    /\ pc = "hydrating"
    /\ task[i] \in {"url", "body"}
    /\ ~blobs[i].up
    /\ task' = [task EXCEPT ![i] = "failed"]
    /\ UNCHANGED <<searchQuery, searchType, searchField, pc, docs,
                   candidates, ranked, ordered, result, outcome, fetches>>
    /\ UNCHANGED <<matchVars, envVars, otherVars>>

\* await fetch(url), await res.text() resolve: doc.textContent = fullText || ''
TaskGotText(i) ==
    /\ pc = "hydrating"
    /\ task[i] = "body"
    /\ blobs[i].up
    /\ docs' = WriteText(docs, i, blobs[i].text)
    /\ task' = [task EXCEPT ![i] = "done"]
    /\ UNCHANGED <<searchQuery, searchType, searchField, pc,
                   candidates, ranked, ordered, result, outcome, fetches>>
    /\ UNCHANGED <<matchVars, envVars, otherVars>>

\* await Promise.all(...): every task has settled
AllSettled == \A i \in 1..Len(task) : Settled(task[i])

\* ranking, enrichment and the result cap, for the hit list the engine gives
RankEnrich(q, cs, hits) ==
    /\ candidates' = cs
    /\ ranked' = hits
    /\ ordered' = OrderedOf(hits, cs)
    /\ result' = Take(Enriched(OrderedOf(hits, cs), q, searchType), ResultCap)

FilterRank(q, cs) == \E hits \in FuseSearch(cs) : RankEnrich(q, cs, hits)

\* Promise.all resolves; filter, rank, enrich and slice run without another
\* await
FilterRankEnrich ==
    /\ pc = "hydrating"
    /\ AllSettled
    /\ FilterRank(TrimmedQuery, Filter(docs, TrimmedQuery, searchType, searchField))
    /\ pc' = "done"
    /\ outcome' = "returned"
    /\ UNCHANGED <<searchQuery, searchType, searchField, docs, task, fetches>>
    /\ UNCHANGED <<matchVars, envVars, otherVars>>

SearchNext ==
    \/ RejectQuery
    \/ BeginFetch
    \/ FetchFailed
    \/ FetchReturned
    \/ \E i \in 1..Len(task) : TaskGotUrl(i)
    \/ \E i \in 1..Len(task) : TaskFailed(i)
    \/ \E i \in 1..Len(task) : TaskGotText(i)
    \/ FilterRankEnrich

-----------------------------------------------------------------------------
(* Inputs *)

RECURSIVE SeqsUpTo(_, _)
SeqsUpTo(S, n) ==
    IF n = 0 THEN {<<>>}
    ELSE LET shorter == SeqsUpTo(S, n - 1)
         IN  shorter \cup {Append(s, c) : s \in {t \in shorter : Len(t) = n - 1}, c \in S}

TextAlphabet == {"a", "A", "b", ".", ",", " ", chIDot}
QueryAlphabet == {"a", "A", "b", "i", chCombDot}

\* "Hello world." and "Goodbye now." scaled to one letter a word
ExampleTexts == {<<"A", " ", "b", ".">>, <<"b", " ", "a", ".">>}

Texts == SeqsUpTo(TextAlphabet, MaxTextLen) \cup ExampleTexts
Queries == SeqsUpTo(QueryAlphabet, MaxQueryLen) \ {<<>>}

NotApplied == [t \in MatchTypes |-> FALSE]
NoInfos == [t \in MatchTypes |-> NullInfo]

\* FileService.CONFIG
MAX_CONCURRENT_UPLOADS == 3
RETRY_ATTEMPTS == 3
RETRY_DELAY_BASE == 1000

\* the number of concurrent FileService.uploadFile calls considered
MaxServiceCalls == 4
ServiceCalls == 1..MaxServiceCalls

\* the number of SimpleFileService.uploadFileComplete calls considered
MaxSimpleCalls == 3
SimpleCalls == 1..MaxSimpleCalls

ServiceIdle ==
    /\ activeUploads = {}
    /\ uploadPc = [c \in ServiceCalls |-> "idle"]

RetryIdle ==
    /\ attempt = 0
    /\ retryPc = "idle"
    /\ attemptErrors = <<>>
    /\ retryDelays = <<>>

\* no document with this id in the collection
NoPlaceholder == [exists |-> FALSE, processingStatus |-> "none", downloadURL |-> "none"]

SimpleIdle ==
    /\ placeholders = [c \in SimpleCalls |-> NoPlaceholder]
    /\ simplePc = [c \in SimpleCalls |-> "idle"]

BackendIdle == ServiceIdle /\ RetryIdle /\ SimpleIdle

MatchIdle ==
    /\ mText = <<>>
    /\ mQuery = <<>>
    /\ mPc = "off"
    /\ mMatched = NotApplied
    /\ mInfo = NoInfos
    /\ mSentences = <<>>
    /\ mOnce = <<>>
    /\ mTwice = <<>>

SuggestIdle ==
    /\ sgPartial = <<>>
    /\ sgPc = "idle"
    /\ sgResult = <<>>
    /\ sgOutcome = "pending"

UiIdle ==
    /\ uiQuery = <<>>
    /\ uiSearching = FALSE
    /\ uiRequests = <<>>
    /\ uiResults = <<>>
    /\ uiRecent = <<>>
    /\ uiShownOf = 0

\* the value of a field that was never set, and of a sum with it
NaN == -1

Plus(a, b) == IF a = NaN THEN NaN ELSE a + b

NoStats == [total |-> 0, completed |-> 0, failed |-> 0, totalSize |-> 0, uploadedSize |-> 0]
\* no addFiles call has returned yet
NotCalled ==
    [called |-> FALSE, success |-> FALSE, addedCount |-> 0,
     validFiles |-> <<>>, invalidCount |-> 0]

\* the error state holds the messages joined; <<>> stands for null
UploadIdle ==
    /\ files = <<>>
    /\ error = <<>>
    /\ globalError = "null"
    /\ isOnline = TRUE
    /\ uploadStats = NoStats
    /\ addResult = NotCalled
    /\ nextId = 1
    /\ isUploading = FALSE
    /\ activeUploadsRef = {}
    /\ calls = <<>>
    /\ timers = <<>>
    /\ aborted = {}

\* no upload under way
TransferIdle ==
    /\ isUploading = FALSE
    /\ activeUploadsRef = {}
    /\ calls = <<>>
    /\ timers = <<>>
    /\ aborted = {}

OtherIdle == SuggestIdle /\ UiIdle /\ UploadIdle

SearchIdle ==
    /\ store = <<>>
    /\ storeUp = TRUE
    /\ blobs = <<>>
    /\ searchQuery = <<>>
    /\ searchType = "contains"
    /\ searchField = "all"
    /\ pc = "idle"
    /\ docs = <<>>
    /\ task = <<>>
    /\ candidates = <<>>
    /\ ranked = <<>>
    /\ ordered = <<>>
    /\ result = <<>>
    /\ outcome = "pending"
    /\ fetches = 0

MatchInit ==
    /\ BackendIdle
    /\ mText \in Texts
    /\ mQuery \in Queries
    /\ mPc = "input"
    /\ mMatched = NotApplied
    /\ mInfo = NoInfos
    /\ mSentences = <<>>
    /\ mOnce = <<>>
    /\ mTwice = <<>>
    /\ SearchIdle
    /\ OtherIdle

\* the matcher, the locator, the sentence splitter and the highlighter
\* applied to the same field and query
ApplyMatch ==
    /\ mPc = "input"
    /\ mPc' = "applied"
    /\ mMatched' = [t \in MatchTypes |-> matchByType(mText, mQuery, t)]
    /\ mInfo' = [t \in MatchTypes |-> computeMatchInfo(mText, mQuery, t)]
    /\ mSentences' = splitIntoSentences(mText)
    /\ mOnce' = highlightAll(mText, mQuery)
    /\ mTwice' = highlightAll(highlightAll(mText, mQuery), mQuery)
    /\ UNCHANGED <<mText, mQuery>>
    /\ UNCHANGED <<envVars, searchVars, otherVars>>

MatchNext == ApplyMatch

SpecMatch == MatchInit /\ [][MatchNext]_vars

\* The records a corpus is drawn from, each with the text of the blob its
\* textContentStoragePath names.  An absent field is the empty string, as
\* String(doc.x || '') reads it; an absent pageCount is 0.
DocKinds == {
    \* inline text, no pointer
    [fileName |-> <<"a">>, author |-> <<"b">>, title |-> <<>>,
     textContent |-> <<"b", ".">>, textContentStoragePath |-> "", blob |-> <<>>,
     pageCount |-> 3],
    \* no inline text, pointer to a blob; only the content can match "a"
    [fileName |-> <<"b">>, author |-> <<>>, title |-> <<>>,
     textContent |-> <<>>, textContentStoragePath |-> "texts/x", blob |-> <<"A", " ", "b">>,
     pageCount |-> 4],
    \* no inline text, pointer to a blob; the file name matches "a"
    [fileName |-> <<"a">>, author |-> <<>>, title |-> <<>>,
     textContent |-> <<>>, textContentStoragePath |-> "texts/y", blob |-> <<"b">>,
     pageCount |-> 0],
    \* neither inline text nor pointer; the title matches "a"
    [fileName |-> <<"b">>, author |-> <<>>, title |-> <<"a">>,
     textContent |-> <<>>, textContentStoragePath |-> "", blob |-> <<>>,
     pageCount |-> 0],
    \* inline text and a pointer: never hydrated
    [fileName |-> <<"b">>, author |-> <<"a">>, title |-> <<>>,
     textContent |-> <<"a">>, textContentStoragePath |-> "texts/z", blob |-> <<"b">>,
     pageCount |-> 1],
    \* inline text in capitals with two U+0130 before the word "b"
    [fileName |-> <<"b">>, author |-> <<>>, title |-> <<>>,
     textContent |-> <<chIDot, chIDot, "b">>, textContentStoragePath |-> "", blob |-> <<>>,
     pageCount |-> 2]}

\* blank, punctuation only, and two queries that are accepted
SearchQueries == {<<>>, <<" ", ".">>, <<"a">>, <<"b", " ">>}

SearchFields == {"all", "content", "fileName", "author"}

DocOf(kind, i) ==
    [id |-> i, fileName |-> kind.fileName, author |-> kind.author, title |-> kind.title,
     textContent |-> kind.textContent,
     textContentStoragePath |-> kind.textContentStoragePath,
     pageCount |-> kind.pageCount]

SearchInit ==
    /\ BackendIdle
    /\ \E n \in 0..MaxDocs : \E kinds \in [1..n -> DocKinds] :
          /\ store = [i \in 1..n |-> DocOf(kinds[i], i)]
          /\ \E ups \in [1..n -> BOOLEAN] :
                /\ \A i \in 1..n : NeedsHydration(kinds[i]) \/ ups[i]
                /\ blobs = [i \in 1..n |-> [up |-> ups[i], text |-> kinds[i].blob]]
    /\ storeUp \in BOOLEAN
    /\ searchQuery \in SearchQueries
    /\ searchType \in MatchTypes
    /\ searchField \in SearchFields
    /\ pc = "called"
    /\ docs = <<>>
    /\ task = <<>>
    /\ candidates = <<>>
    /\ ranked = <<>>
    /\ ordered = <<>>
    /\ result = <<>>
    /\ outcome = "pending"
    /\ fetches = 0
    /\ MatchIdle
    /\ OtherIdle

SpecSearch == SearchInit /\ [][SearchNext]_vars

-----------------------------------------------------------------------------
(* getSearchSuggestions *)

\* .slice(0, 5)
SuggestCap == 5

MaxSuggestDocs == 6

\* docs.filter((d) => matchByType(d.fileName, q, 'contains'))
RECURSIVE FilterByName(_, _)
FilterByName(ds, q) ==
    IF ds = <<>> THEN <<>>
    ELSE (IF matchByType(Head(ds).fileName, q, "contains") THEN <<Head(ds)>> ELSE <<>>)
         \o FilterByName(Tail(ds), q)

\* .map((d) => ({ suggestion: d.fileName }))
SuggestionsFrom(ds) == [k \in 1..Len(ds) |-> [suggestion |-> ds[k].fileName]]

\* a mutant of SuggestionsOf: the list is not cut
SuggestionsUncut(ds, q) == SuggestionsFrom(FilterByName(ds, q))

SuggestionsOf(ds, q) == SuggestionsFrom(Take(FilterByName(ds, q), SuggestCap))

\* const q = (partial || '').trim(); if (!q) return []
SuggestBlank ==
    /\ sgPc = "called"
    /\ Trim(sgPartial) = <<>>
    /\ sgPc' = "done"
    /\ sgResult' = <<>>
    /\ sgOutcome' = "returned"
    /\ UNCHANGED <<sgPartial, matchVars, envVars, searchVars, uiVars, uploadVars, backendVars>>

\* const docs = await fetchAllDocuments(): the call is issued
SuggestBeginFetch ==
    /\ sgPc = "called"
    /\ Trim(sgPartial) # <<>>
    /\ sgPc' = "fetching"
    /\ fetches' = fetches + 1
    /\ UNCHANGED <<sgPartial, sgResult, sgOutcome>>
    /\ UNCHANGED <<searchQuery, searchType, searchField, pc, docs, task,
                   candidates, ranked, ordered, result, outcome>>
    /\ UNCHANGED <<matchVars, envVars, uiVars, uploadVars, backendVars>>

\* getDocs rejects, and getSearchSuggestions with it
SuggestFetchFailed ==
    /\ sgPc = "fetching"
    /\ ~storeUp
    /\ sgPc' = "done"
    /\ sgOutcome' = "thrown"
    /\ UNCHANGED <<sgPartial, sgResult, matchVars, envVars, searchVars, uiVars, uploadVars, backendVars>>

\* getDocs resolves: filter, slice and map run without another await
SuggestFetchReturned ==
    /\ sgPc = "fetching"
    /\ storeUp
    /\ sgPc' = "done"
    /\ sgResult' = SuggestionsOf(store, Trim(sgPartial))
    /\ sgOutcome' = "returned"
    /\ UNCHANGED <<sgPartial, matchVars, envVars, searchVars, uiVars, uploadVars, backendVars>>

SuggestNext ==
    \/ SuggestBlank
    \/ SuggestBeginFetch
    \/ SuggestFetchFailed
    \/ SuggestFetchReturned

\* records told apart by their file names; the text of each is external, so
\* that a search would have to fetch it
SuggestKinds == {
    [fileName |-> <<"a">>, author |-> <<>>, title |-> <<>>,
     textContent |-> <<>>, textContentStoragePath |-> "texts/x", blob |-> <<"a">>,
     pageCount |-> 0],
    [fileName |-> <<"b", "A">>, author |-> <<>>, title |-> <<>>,
     textContent |-> <<>>, textContentStoragePath |-> "texts/y", blob |-> <<"a">>,
     pageCount |-> 0],
    [fileName |-> <<"b">>, author |-> <<"a">>, title |-> <<"a">>,
     textContent |-> <<>>, textContentStoragePath |-> "texts/z", blob |-> <<"a">>,
     pageCount |-> 0]}

\* blank, blank after trim, and two that are not
Partials == {<<>>, <<" ">>, <<"a">>, <<" ", "A", " ">>}

SearchCallIdle ==
    /\ searchQuery = <<>>
    /\ searchType = "contains"
    /\ searchField = "all"
    /\ pc = "idle"
    /\ docs = <<>>
    /\ task = <<>>
    /\ candidates = <<>>
    /\ ranked = <<>>
    /\ ordered = <<>>
    /\ result = <<>>
    /\ outcome = "pending"
    /\ fetches = 0

SuggestInit ==
    /\ BackendIdle
    /\ \E n \in 0..MaxSuggestDocs : \E kinds \in [1..n -> SuggestKinds] :
          /\ store = [i \in 1..n |-> DocOf(kinds[i], i)]
          /\ blobs = [i \in 1..n |-> [up |-> TRUE, text |-> kinds[i].blob]]
    /\ storeUp \in BOOLEAN
    /\ sgPartial \in Partials
    /\ sgPc = "called"
    /\ sgResult = <<>>
    /\ sgOutcome = "pending"
    /\ SearchCallIdle
    /\ MatchIdle
    /\ UiIdle
    /\ UploadIdle

SpecSuggest == SuggestInit /\ [][SuggestNext]_vars

-----------------------------------------------------------------------------
(* AdvancedSearch and the page that shows the results.  The component keeps  *)
(* the defaults of its selects: match mode 'contains', field scope 'all'.    *)

MaxSearches == 2

\* [newSearch, ...filtered].slice(0, 5)
RecentCap == 5

\* the values a searchDocuments call can resolve with, for the hit lists
\* the engine can give
ResultsFor(cs, q, type) ==
    {Take(Enriched(OrderedOf(hits, cs), q, type), ResultCap) : hits \in FuseSearch(cs)}

\* searchDocuments(query, type, field) over a corpus ds whose texts are
\* inline (nothing to hydrate), given that getDocs resolves
SearchOutcomes(ds, q, type, field) ==
    IF q = <<>> \/ ~hasAlphaNum(q) THEN {<<>>}
    ELSE ResultsFor(Filter(ds, q, type, field), q, type)

\* prev.filter(s => s.query !== searchQuery)
RECURSIVE WithoutQuery(_, _)
WithoutQuery(recent, q) ==
    IF recent = <<>> THEN <<>>
    ELSE (IF Head(recent).query # q THEN <<Head(recent)>> ELSE <<>>)
         \o WithoutQuery(Tail(recent), q)

\* onChange of the input: setSearchQuery(e.target.value)
TypeQuery(q) ==
    /\ q # uiQuery
    /\ uiQuery' = q
    /\ UNCHANGED <<uiSearching, uiRequests, uiResults, uiRecent, uiShownOf>>
    /\ UNCHANGED <<matchVars, envVars, searchVars, suggestVars, uploadVars, backendVars>>

\* performSearch up to its await: a blank query hands over [] at once,
\* any other sets isSearching and issues the call, whether or not an
\* earlier call is still pending
PerformSearch ==
    IF Trim(uiQuery) = <<>>
    THEN /\ uiResults' = <<>>
         /\ uiShownOf' = 0
         /\ UNCHANGED <<uiQuery, uiSearching, uiRequests, uiRecent>>
    ELSE /\ Len(uiRequests) < MaxSearches
         /\ uiSearching' = TRUE
         /\ uiRequests' = Append(uiRequests, [query |-> uiQuery, status |-> "pending"])
         /\ UNCHANGED <<uiQuery, uiResults, uiRecent, uiShownOf>>

\* handleKeyPress with the Enter key: the input is never disabled
PressEnter ==
    /\ PerformSearch
    /\ UNCHANGED <<matchVars, envVars, searchVars, suggestVars, uploadVars, backendVars>>

\* onClick of the button, disabled={isSearching || !searchQuery.trim()}
ClickSearch ==
    /\ ~uiSearching
    /\ Trim(uiQuery) # <<>>
    /\ PerformSearch
    /\ UNCHANGED <<matchVars, envVars, searchVars, suggestVars, uploadVars, backendVars>>

\* clearSearch
ClearSearch ==
    /\ uiQuery # <<>>
    /\ uiQuery' = <<>>
    /\ uiResults' = <<>>
    /\ uiShownOf' = 0
    /\ UNCHANGED <<uiSearching, uiRequests, uiRecent>>
    /\ UNCHANGED <<matchVars, envVars, searchVars, suggestVars, uploadVars, backendVars>>

\* the rest of performSearch when call k resolves with results:
\* onSearchResults(results), which is setSearchResults(results) of the
\* page, the recent searches, and finally setIsSearching(false)
Deliver(k, results) ==
    /\ uiResults' = results
    /\ uiShownOf' = k
    /\ uiRecent' = Take(<<[query |-> uiRequests[k].query, resultCount |-> Len(results)]>>
                          \o WithoutQuery(uiRecent, uiRequests[k].query), RecentCap)
    /\ uiSearching' = FALSE
    /\ uiRequests' = [uiRequests EXCEPT ![k].status = "resolved"]

RequestResolves(k) ==
    /\ uiRequests[k].status = "pending"
    /\ storeUp
    /\ \E results \in SearchOutcomes(store, Trim(uiRequests[k].query), "contains", "all") :
          Deliver(k, results)
    /\ UNCHANGED <<uiQuery, matchVars, envVars, searchVars, suggestVars, uploadVars, backendVars>>

\* call k rejects: catch hands over [], finally setIsSearching(false)
RequestRejects(k) ==
    /\ uiRequests[k].status = "pending"
    /\ ~storeUp
    /\ uiResults' = <<>>
    /\ uiShownOf' = k
    /\ uiSearching' = FALSE
    /\ uiRequests' = [uiRequests EXCEPT ![k].status = "rejected"]
    /\ UNCHANGED <<uiQuery, uiRecent, matchVars, envVars, searchVars, suggestVars, uploadVars, backendVars>>

UiNext ==
    \/ \E q \in {<<>>, <<"a">>, <<"b">>} : TypeQuery(q)
    \/ PressEnter
    \/ ClickSearch
    \/ ClearSearch
    \/ \E k \in 1..Len(uiRequests) : RequestResolves(k)
    \/ \E k \in 1..Len(uiRequests) : RequestRejects(k)

\* records with inline text: one that matches "a", one that matches "b"
UiKinds == {
    [fileName |-> <<"a">>, author |-> <<>>, title |-> <<>>,
     textContent |-> <<"A", ".">>, textContentStoragePath |-> "", blob |-> <<>>,
     pageCount |-> 1],
    [fileName |-> <<"b">>, author |-> <<>>, title |-> <<>>,
     textContent |-> <<"b">>, textContentStoragePath |-> "", blob |-> <<>>,
     pageCount |-> 0]}

UiInit ==
    /\ BackendIdle
    /\ \E n \in 0..MaxDocs : \E kinds \in [1..n -> UiKinds] :
          /\ store = [i \in 1..n |-> DocOf(kinds[i], i)]
          /\ blobs = [i \in 1..n |-> [up |-> TRUE, text |-> kinds[i].blob]]
    /\ storeUp \in BOOLEAN
    /\ UiIdle
    /\ SearchCallIdle
    /\ MatchIdle
    /\ SuggestIdle
    /\ UploadIdle

SpecUi == UiInit /\ [][UiNext]_vars

-----------------------------------------------------------------------------
(* FileValidator and useFileUpload.addFiles: the upload queue *)

MaxBatch == 2
MaxQueue == 3

MB == 1024 * 1024

chNul == "U+0000"

typePdf == "application/pdf"
typeDocx == "application/vnd.openxmlformats-officedocument.wordprocessingml.document"
typeXlsx == "application/vnd.openxmlformats-officedocument.spreadsheetml.sheet"
typeXls == "application/vnd.ms-excel"
typeTxt == "text/plain"

FormatTypes == {typePdf, typeDocx, typeXlsx, typeXls, typeTxt}

\* FileValidator.SUPPORTED_FORMATS
SUPPORTED_FORMATS ==
    [t \in FormatTypes |->
        CASE t = typePdf -> [ext |-> <<".", "p", "d", "f">>, maxSize |-> 50 * MB]
          [] t = typeDocx -> [ext |-> <<".", "d", "o", "c", "x">>, maxSize |-> 25 * MB]
          [] t = typeXlsx -> [ext |-> <<".", "x", "l", "s", "x">>, maxSize |-> 25 * MB]
          [] t = typeXls -> [ext |-> <<".", "x", "l", "s">>, maxSize |-> 25 * MB]
          [] t = typeTxt -> [ext |-> <<".", "t", "x", "t">>, maxSize |-> 5 * MB]]

\* FileValidator.DEFAULT_MAX_SIZE
DEFAULT_MAX_SIZE == 10 * MB

MAX_FILENAME_LENGTH == 255

BLOCKED_EXTENSIONS ==
    {<<".", "e", "x", "e">>, <<".", "b", "a", "t">>, <<".", "c", "m", "d">>,
     <<".", "s", "c", "r">>, <<".", "j", "s">>, <<".", "v", "b", "s">>,
     <<".", "c", "o", "m">>, <<".", "p", "i", "f">>}

SUSPICIOUS_PATTERNS ==
    {<<"s", "c", "r", "i", "p", "t">>,
     <<"<", "i", "f", "r", "a", "m", "e">>,
     <<"<", "o", "b", "j", "e", "c", "t">>,
     <<"j", "a", "v", "a", "s", "c", "r", "i", "p", "t", ":">>}

\* pattern.test(name) for a literal pattern with the i flag
TestIgnoreCase(pattern, name) ==
    Includes([k \in 1..Len(name) |-> RegexFold(name[k])], pattern)

\* formatInfo?.maxSize || DEFAULT_MAX_SIZE
MaxSizeOf(type) ==
    IF type \in DOMAIN SUPPORTED_FORMATS
    THEN SUPPORTED_FORMATS[type].maxSize
    ELSE DEFAULT_MAX_SIZE

SizeErrors(file) ==
    IF file.size = 0 THEN <<"empty">>
    ELSE IF file.size > MaxSizeOf(file.type) THEN <<"tooLarge">>
    ELSE <<>>

TypeErrors(file) ==
    IF file.type \notin DOMAIN SUPPORTED_FORMATS THEN <<"unsupportedFormat">> ELSE <<>>

HasDangerousExtension(name) ==
    \E ext \in BLOCKED_EXTENSIONS : EndsWith(ToLowerCase(name), ext)

IsSuspicious(name) == \E pattern \in SUSPICIOUS_PATTERNS : TestIgnoreCase(pattern, name)

NameErrors(file) ==
    IF Trim(file.name) = <<>> THEN <<"invalidName">>
    ELSE (IF Len(file.name) > MAX_FILENAME_LENGTH THEN <<"nameTooLong">> ELSE <<>>)
         \o (IF HasDangerousExtension(file.name) THEN <<"dangerousExtension">> ELSE <<>>)
         \o (IF Includes(file.name, <<chNul>>) THEN <<"nullByte">> ELSE <<>>)

SecurityFlags(file) ==
    IF Trim(file.name) = <<>> THEN <<>>
    ELSE (IF HasDangerousExtension(file.name) THEN <<"dangerousExtension">> ELSE <<>>)
         \o (IF IsSuspicious(file.name) THEN <<"suspiciousPattern">> ELSE <<>>)
         \o (IF Includes(file.name, <<chNul>>) THEN <<"nullByte">> ELSE <<>>)

ValidationResult(errors, securityFlags) ==
    [isValid |-> errors = <<>>, errors |-> errors, securityFlags |-> securityFlags]

\* FileValidator.validateFile, called without requireMinSize and without
\* allowedCategories; the warnings, which are only logged, are left out
validateFile(file) ==
    ValidationResult(SizeErrors(file) \o TypeErrors(file) \o NameErrors(file),
                     SecurityFlags(file))

RECURSIVE SelectFiles(_, _)
\* the files of fs, in order, whose entry in keep is TRUE
SelectFiles(fs, keep) ==
    IF fs = <<>> THEN <<>>
    ELSE (IF Head(keep) THEN <<Head(fs)>> ELSE <<>>) \o SelectFiles(Tail(fs), Tail(keep))

RECURSIVE SumSizes(_)
SumSizes(fs) == IF fs = <<>> THEN 0 ELSE Head(fs).size + SumSizes(Tail(fs))

RECURSIVE FlatErrors(_)
\* invalidFiles.flatMap(item => item.validation.errors)
FlatErrors(results) ==
    IF results = <<>> THEN <<>>
    ELSE (IF Head(results).isValid THEN <<>> ELSE Head(results).errors)
         \o FlatErrors(Tail(results))

BatchErrors(totalSize, totalFiles, maxBatchSize, maxFileCount) ==
    (IF totalSize > maxBatchSize THEN <<"batchTooLarge">> ELSE <<>>)
    \o (IF totalFiles > maxFileCount THEN <<"tooManyFiles">> ELSE <<>>)

BatchResult(fs, results, validFiles, maxBatchSize, maxFileCount) ==
    [validFiles |-> validFiles,
     invalidCount |-> Len(fs) - Len(validFiles),
     invalidErrors |-> FlatErrors(results),
     batchErrors |-> BatchErrors(SumSizes(validFiles), Len(fs), maxBatchSize, maxFileCount),
     hasErrors |-> Len(validFiles) < Len(fs)
                   \/ BatchErrors(SumSizes(validFiles), Len(fs), maxBatchSize, maxFileCount) # <<>>,
     hasSecurity |-> \E k \in 1..Len(results) : results[k].securityFlags # <<>>,
     totalSize |-> SumSizes(validFiles)]

nameReport == <<"r", ".", "p", "d", "f">>
nameNotes == <<"n", ".", "t", "x", "t">>
nameImage == <<"i", ".", "p", "n", "g">>
nameSetup == <<"s", ".", "e", "x", "e">>
nameScript == <<"s", "c", "r", "i", "p", "t", ".", "t", "x", "t">>

\* the files a user can drop: at and just over 10 MB, over the limit of
\* their own type, of an unsupported type, empty, blocked and suspicious
FileKinds == {
    [name |-> nameReport, type |-> typePdf, size |-> 10 * MB],
    [name |-> nameReport, type |-> typePdf, size |-> 10 * MB + 1],
    [name |-> nameReport, type |-> typePdf, size |-> 50 * MB + 1],
    [name |-> nameNotes, type |-> typeTxt, size |-> 10 * MB + 1],
    [name |-> nameImage, type |-> "image/png", size |-> 10 * MB + 1],
    [name |-> nameReport, type |-> typePdf, size |-> 0],
    [name |-> nameSetup, type |-> typePdf, size |-> 1],
    [name |-> nameScript, type |-> typeTxt, size |-> 1] }

\* a small text file
SmallFile == [name |-> nameNotes, type |-> typeTxt, size |-> 1]

\* validateFile on each kind of file, computed once
ValidationOf == [file \in FileKinds \cup {SmallFile} |-> validateFile(file)]

\* fileArray.map(file => validateFile(file, options))
ResultsOf(fs) == [k \in 1..Len(fs) |-> ValidationOf[fs[k]]]

BatchOf(fs, results, maxBatchSize, maxFileCount) ==
    BatchResult(fs, results,
                SelectFiles(fs, [k \in 1..Len(fs) |-> results[k].isValid]),
                maxBatchSize, maxFileCount)

\* FileValidator.validateFiles
validateFiles(fs, maxBatchSize, maxFileCount) ==
    BatchOf(fs, ResultsOf(fs), maxBatchSize, maxFileCount)

\* the defaults addFiles passes when the hook is used without options
MaxFileCount == 10
MaxBatchSize == 100 * MB

\* options.maxRetries || 3, the hook being used without options
DefaultMaxRetries == 3

\* the queue entry of a new file; the id stands for the generated fileId,
\* and of the entry's fields those that no decision reads are left out
Pending(file, id) ==
    [id |-> id, file |-> file, status |-> "pending", retryCount |-> 0,
     maxRetries |-> DefaultMaxRetries]

Returned(success, addedCount, validation) ==
    [called |-> TRUE, success |-> success, addedCount |-> addedCount,
     validFiles |-> validation.validFiles, invalidCount |-> validation.invalidCount]

\* addFiles queues the valid files of a batch that has invalid ones
AddValidatedPartial(validation) ==
    IF validation.hasSecurity /\ ~validation.hasErrors
    THEN /\ error' = <<"security">>
         /\ addResult' = Returned(FALSE, 0, validation)
         /\ UNCHANGED <<files, uploadStats, nextId>>
    ELSE /\ error' = validation.batchErrors \o validation.invalidErrors
         /\ files' = files \o [k \in 1..Len(validation.validFiles) |->
                                  Pending(validation.validFiles[k], nextId + k - 1)]
         /\ nextId' = nextId + Len(validation.validFiles)
         /\ uploadStats' = [uploadStats EXCEPT
                !.total = @ + Len(validation.validFiles),
                !.totalSize = Plus(@, validation.totalSize)]
         /\ addResult' = Returned(~validation.hasErrors, Len(validation.validFiles), validation)

\* addFiles once the network check has passed
AddValidated(validation) ==
    IF validation.hasErrors
    THEN /\ error' = validation.batchErrors \o validation.invalidErrors
         /\ addResult' = Returned(FALSE, 0, validation)
         /\ UNCHANGED <<files, uploadStats, nextId>>
    ELSE IF validation.hasSecurity
    THEN /\ error' = <<"security">>
         /\ addResult' = Returned(FALSE, 0, validation)
         /\ UNCHANGED <<files, uploadStats, nextId>>
    ELSE /\ error' = <<>>
         /\ files' = files \o [k \in 1..Len(validation.validFiles) |->
                                  Pending(validation.validFiles[k], nextId + k - 1)]
         /\ nextId' = nextId + Len(validation.validFiles)
         /\ uploadStats' = [uploadStats EXCEPT
                !.total = @ + Len(validation.validFiles),
                !.totalSize = Plus(@, validation.totalSize)]
         /\ addResult' = Returned(TRUE, Len(validation.validFiles), validation)

\* the body of addFiles(selectedFiles)
addFiles(selectedFiles) ==
    IF ~isOnline
    THEN /\ error' = <<>>
         /\ globalError' = "offline"
         /\ addResult' = [NotCalled EXCEPT !.called = TRUE]
         /\ UNCHANGED <<files, uploadStats, nextId>>
    ELSE /\ globalError' = "null"
         /\ \E validation \in {validateFiles(selectedFiles, MaxBatchSize, MaxFileCount)} :
                AddValidated(validation)

\* useFileUpload.addFiles(selectedFiles)
AddFiles(selectedFiles) ==
    /\ nextId + Len(selectedFiles) - 1 <= MaxQueue
    /\ addFiles(selectedFiles)
    /\ UNCHANGED <<isOnline, transferVars, matchVars, envVars, searchVars, suggestVars, uiVars, backendVars>>

\* the window's online event
HandleOnline ==
    /\ ~isOnline
    /\ isOnline' = TRUE
    /\ UNCHANGED <<files, error, globalError, uploadStats, addResult, nextId,
                   transferVars, matchVars, envVars, searchVars, suggestVars, uiVars, backendVars>>

\* the window's offline event
HandleOffline ==
    /\ isOnline
    /\ isOnline' = FALSE
    /\ UNCHANGED <<files, error, globalError, uploadStats, addResult, nextId,
                   transferVars, matchVars, envVars, searchVars, suggestVars, uiVars, backendVars>>

Selections == SeqsUpTo(FileKinds, MaxBatch) \ {<<>>}

UploadNext ==
    \/ \E selectedFiles \in Selections : AddFiles(selectedFiles)
    \/ HandleOnline
    \/ HandleOffline

UploadInit ==
    /\ BackendIdle
    /\ MatchIdle
    /\ SearchIdle
    /\ SuggestIdle
    /\ UiIdle
    /\ files = <<>>
    /\ error = <<>>
    /\ globalError = "null"
    /\ isOnline \in BOOLEAN
    /\ uploadStats = NoStats
    /\ addResult = NotCalled
    /\ nextId = 1
    /\ TransferIdle

SpecUpload == UploadInit /\ [][UploadNext]_vars

-----------------------------------------------------------------------------
(* useFileUpload: uploadFile, uploadAllFiles, addAndUploadFiles, removeFile, *)
(* clearFiles, retryFailedUploads, abortUpload.  Each handler runs to its    *)
(* next await in one step; a callback sees the files and isUploading of the  *)
(* render that created it.  addAndUploadFiles and abortAllUploads are not    *)
(* modelled.                                                                 *)

MaxAdded == 2

\* String.prototype.includes on error messages
StrIncludes(str, needle) ==
    \E i \in 1..(Len(str) - Len(needle) + 1) : SubSeq(str, i, i + Len(needle) - 1) = needle

retryableErrors ==
    {"storage/unknown", "storage/retry-limit-exceeded", "network-request-failed",
     "Upload timeout exceeded"}

\* FileService.isRetryableError
isRetryableError(err) ==
    \/ \E code \in retryableErrors : err.code = code \/ StrIncludes(err.message, code)
    \/ StrIncludes(err.message, "timeout")
    \/ StrIncludes(err.message, "network")

\* what FileService.uploadFileComplete throws: enhanceError keeps the
\* message and drops the code
EnhancedError(message) == [code |-> "undefined", message |-> message]

UploadErrors ==
    {EnhancedError("Upload failed after 3 attempts: Upload timeout exceeded"),
     EnhancedError("No internet connection available")}

\* updateFile({ status })
WithStatus(fs, id, status) ==
    [k \in 1..Len(fs) |-> IF fs[k].id = id THEN [fs[k] EXCEPT !.status = status] ELSE fs[k]]

\* updateFile({ status: 'retrying', retryCount })
WithRetry(fs, id, retryCount) ==
    [k \in 1..Len(fs) |->
        IF fs[k].id = id
        THEN [fs[k] EXCEPT !.status = "retrying", !.retryCount = retryCount]
        ELSE fs[k]]

RECURSIVE WithStatusOf(_, _)
\* files.filter(f => f.status === status)
WithStatusOf(fs, status) ==
    IF fs = <<>> THEN <<>>
    ELSE (IF Head(fs).status = status THEN <<Head(fs)>> ELSE <<>>)
         \o WithStatusOf(Tail(fs), status)

RECURSIVE WithoutId(_, _)
\* prev.filter(f => f.id !== fileId)
WithoutId(fs, id) ==
    IF fs = <<>> THEN <<>>
    ELSE (IF Head(fs).id = id THEN <<>> ELSE <<Head(fs)>>) \o WithoutId(Tail(fs), id)

RECURSIVE AllPending(_, _)
\* the failed files, one after the other, set back to 'pending'
AllPending(fs, failedFiles) ==
    IF failedFiles = <<>> THEN fs
    ELSE AllPending(WithStatus(fs, Head(failedFiles).id, "pending"), Tail(failedFiles))

Without(xs, k) == SubSeq(xs, 1, k - 1) \o SubSeq(xs, k + 1, Len(xs))

\* an uploadFile call waiting for FileService.uploadFileComplete: its
\* argument, and what the uploadAllFiles loop that awaits it has left to do
Call(fileObj, rest, inBatch) == [fileObj |-> fileObj, rest |-> rest, inBatch |-> inBatch]

\* uploadFile(fileObj) up to its await, on the state (fs, active, cs)
BeginUpload(fs, active, cs, fileObj, rest, inBatch) ==
    /\ files' = WithStatus(fs, fileObj.id, "uploading")
    /\ activeUploadsRef' = active \cup {fileObj.id}
    /\ calls' = Append(cs, Call(fileObj, rest, inBatch))

\* the for loop of uploadAllFiles takes the next file without waiting for
\* the retry timers
LoopOn(fs, active, cs, rest) ==
    IF rest # <<>>
    THEN /\ BeginUpload(fs, active, cs, Head(rest), Tail(rest), TRUE)
         /\ UNCHANGED isUploading
    ELSE /\ files' = fs
         /\ activeUploadsRef' = active
         /\ calls' = cs
         /\ isUploading' = FALSE

\* uploadFile has returned to its caller: the loop of uploadAllFiles goes on
Resume(fs, active, cs, c) ==
    IF c.inBatch
    THEN LoopOn(fs, active, cs, c.rest)
    ELSE /\ files' = fs
         /\ activeUploadsRef' = active
         /\ calls' = cs
         /\ UNCHANGED isUploading

\* uploadFile has thrown to its caller: catch and finally of uploadAllFiles
Thrown(fs, active, cs, c) ==
    /\ files' = fs
    /\ activeUploadsRef' = active
    /\ calls' = cs
    /\ IF c.inBatch
       THEN error' = <<"uploadError">> /\ isUploading' = FALSE
       ELSE UNCHANGED <<error, isUploading>>

\* FileService.uploadFileComplete resolves: the try block of uploadFile
CallSucceeds(k) ==
    /\ k \in 1..Len(calls)
    /\ uploadStats' = [uploadStats EXCEPT
           !.completed = @ + 1,
           !.uploadedSize = Plus(@, calls[k].fileObj.file.size)]
    /\ Resume(WithStatus(files, calls[k].fileObj.id, "completed"),
              activeUploadsRef \ {calls[k].fileObj.id}, Without(calls, k), calls[k])
    /\ UNCHANGED <<error, globalError, isOnline, addResult, nextId, timers, aborted, matchVars, envVars, searchVars, suggestVars, uiVars, backendVars>>

\* the retry of uploadFile after any error
canRetryAnyError(fileObj, err) == fileObj.retryCount < fileObj.maxRetries

\* canRetry of uploadFile
canRetry(fileObj, err) ==
    fileObj.retryCount < fileObj.maxRetries /\ isRetryableError(err)

Retried(fileObj) == [fileObj EXCEPT !.retryCount = @ + 1]

\* FileService.uploadFileComplete rejects with a retryable error and
\* retries are left: the file waits for its retry timer
CallFailsRetry(k, err) ==
    /\ k \in 1..Len(calls)
    /\ canRetry(calls[k].fileObj, err)
    /\ timers' = Append(timers, [fileObj |-> Retried(calls[k].fileObj), cause |-> err])
    /\ Resume(WithRetry(files, calls[k].fileObj.id, calls[k].fileObj.retryCount + 1),
              activeUploadsRef \ {calls[k].fileObj.id}, Without(calls, k), calls[k])
    /\ UNCHANGED <<error, globalError, isOnline, uploadStats, addResult, nextId, aborted, matchVars, envVars, searchVars, suggestVars, uiVars, backendVars>>

\* FileService.uploadFileComplete rejects and uploadFile gives up
CallFailsFinal(k, err) ==
    /\ k \in 1..Len(calls)
    /\ ~canRetry(calls[k].fileObj, err)
    /\ uploadStats' = [uploadStats EXCEPT !.failed = @ + 1]
    /\ Thrown(WithStatus(files, calls[k].fileObj.id, "error"),
              activeUploadsRef \ {calls[k].fileObj.id}, Without(calls, k), calls[k])
    /\ UNCHANGED <<globalError, isOnline, addResult, nextId, timers, aborted, matchVars, envVars, searchVars, suggestVars, uiVars, backendVars>>

\* the retry timer of uploadFile fires
RetryTimerFires(k) ==
    /\ k \in 1..Len(timers)
    /\ timers' = Without(timers, k)
    /\ BeginUpload(files, activeUploadsRef, calls, timers[k].fileObj, <<>>, FALSE)
    /\ UNCHANGED <<error, globalError, isOnline, uploadStats, addResult, nextId, isUploading,
                   aborted, matchVars, envVars, searchVars, suggestVars, uiVars, backendVars>>

\* uploadAllFiles as created by a render with the given files and
\* isUploading, run on the state whose queue is fs
uploadAllFiles(seenFiles, seenUploading, fs) ==
    IF seenUploading
    THEN /\ files' = fs
         /\ UNCHANGED <<isUploading, error, activeUploadsRef, calls>>
    ELSE /\ error' = <<>>
         /\ IF WithStatusOf(seenFiles, "pending") = <<>>
            THEN /\ files' = fs
                 /\ isUploading' = FALSE
                 /\ UNCHANGED <<activeUploadsRef, calls>>
            ELSE /\ isUploading' = TRUE
                 /\ BeginUpload(fs, activeUploadsRef, calls,
                                Head(WithStatusOf(seenFiles, "pending")),
                                Tail(WithStatusOf(seenFiles, "pending")), TRUE)

\* uploadAllFiles called from the current render
UploadAllFiles ==
    /\ uploadAllFiles(files, isUploading, files)
    /\ UNCHANGED <<globalError, isOnline, uploadStats, addResult, nextId, timers, aborted, matchVars, envVars, searchVars, suggestVars, uiVars, backendVars>>

StatsWithout(stats, removed) ==
    [stats EXCEPT
        !.completed = IF removed.status = "completed" THEN @ - 1 ELSE @,
        !.failed = IF removed.status = "error" THEN @ - 1 ELSE @,
        !.total = @ - 1]

\* removeFile(fileId)
RemoveFile(id) ==
    /\ \E k \in 1..Len(files) :
          /\ files[k].id = id
          /\ uploadStats' = StatsWithout(uploadStats, files[k])
    /\ files' = WithoutId(files, id)
    /\ UNCHANGED <<error, globalError, isOnline, addResult, nextId, transferVars,
                   matchVars, envVars, searchVars, suggestVars, uiVars, backendVars>>

\* clearFiles()
ClearFiles ==
    /\ files' = <<>>
    /\ error' = <<>>
    /\ uploadStats' = [total |-> 0, completed |-> 0, failed |-> 0,
                       totalSize |-> NaN, uploadedSize |-> NaN]
    /\ UNCHANGED <<globalError, isOnline, addResult, nextId, transferVars,
                   matchVars, envVars, searchVars, suggestVars, uiVars, backendVars>>

\* retryFailedUploads(), which the panel offers while a file has failed;
\* its uploadAllFiles is the one of the same render
RetryFailedUploads ==
    /\ WithStatusOf(files, "error") # <<>>
    /\ uploadStats' = [uploadStats EXCEPT
           !.failed = @ - Len(WithStatusOf(files, "error"))]
    /\ uploadAllFiles(files, isUploading, AllPending(files, WithStatusOf(files, "error")))
    /\ UNCHANGED <<globalError, isOnline, addResult, nextId, timers, aborted, matchVars, envVars, searchVars, suggestVars, uiVars, backendVars>>

\* abortUpload(fileId) where it returns true; the AbortController it
\* aborts is handed to nobody
AbortUpload(id) ==
    /\ id \in activeUploadsRef
    /\ files' = WithStatus(files, id, "cancelled")
    /\ aborted' = aborted \cup {id}
    /\ UNCHANGED <<error, globalError, isOnline, uploadStats, addResult, nextId,
                   isUploading, activeUploadsRef, calls, timers, matchVars, envVars, searchVars, suggestVars, uiVars, backendVars>>

QueueSelections == {<<SmallFile>>, <<SmallFile, SmallFile>>}

FileIds == 1..MaxAdded

QueueNext ==
    \/ \E selectedFiles \in QueueSelections :
          nextId + Len(selectedFiles) - 1 <= MaxAdded /\ AddFiles(selectedFiles)
    \/ UploadAllFiles
    \/ \E k \in DOMAIN calls : CallSucceeds(k)
    \/ \E k \in DOMAIN calls, err \in UploadErrors : CallFailsRetry(k, err)
    \/ \E k \in DOMAIN calls, err \in UploadErrors : CallFailsFinal(k, err)
    \/ \E k \in DOMAIN timers : RetryTimerFires(k)
    \/ \E id \in FileIds : RemoveFile(id)
    \/ ClearFiles
    \/ RetryFailedUploads
    \/ \E id \in FileIds : AbortUpload(id)

QueueInit ==
    /\ BackendIdle
    /\ MatchIdle
    /\ SearchIdle
    /\ SuggestIdle
    /\ UiIdle
    /\ UploadIdle

SpecQueue == QueueInit /\ [][QueueNext]_vars

\* the service call of the file settles, one way or the other
CallSettles(id) ==
    \E k \in DOMAIN calls :
        /\ calls[k].fileObj.id = id
        /\ \/ CallSucceeds(k)
           \/ \E err \in UploadErrors : CallFailsRetry(k, err) \/ CallFailsFinal(k, err)

\* the retry timer of the file fires
TimerFires(id) ==
    \E k \in DOMAIN timers : timers[k].fileObj.id = id /\ RetryTimerFires(k)

\* every service call settles and every timer fires
SpecQueueLive ==
    /\ SpecQueue
    /\ \A id \in FileIds : WF_vars(CallSettles(id)) /\ WF_vars(TimerFires(id))

(***************************************************************************)
(* FileService.uploadFile and the activeUploads map.  A call is one        *)
(* asynchronous function: each action is the code between two awaits.      *)
(* The upload id of call c is c (generateUploadId gives unique ids).        *)
(***************************************************************************)

\* the finally block of uploadFile
Untracked(c) == activeUploads \ {c}

\* validateUploadPreconditions: the check of the concurrent uploads limit,
\* and what follows it in uploadFile up to the next await
CheckLimit(c) ==
    IF Cardinality(activeUploads) >= MAX_CONCURRENT_UPLOADS
    THEN /\ uploadPc' = [uploadPc EXCEPT ![c] = "rejected"]
         /\ activeUploads' = Untracked(c)
    ELSE /\ uploadPc' = [uploadPc EXCEPT ![c] = "duplicate"]
         /\ UNCHANGED activeUploads

ServiceUnchanged ==
    UNCHANGED <<matchVars, envVars, searchVars, suggestVars, uiVars, uploadVars,
                retryVars, simpleVars>>

\* uploadFile(file) is called: validateUploadPreconditions up to its await
UploadFileCalled(c, online, hasEstimate) ==
    /\ uploadPc[c] = "idle"
    /\ IF ~online
       THEN /\ uploadPc' = [uploadPc EXCEPT ![c] = "thrown"]
            /\ activeUploads' = Untracked(c)
       ELSE IF hasEstimate
       THEN /\ uploadPc' = [uploadPc EXCEPT ![c] = "estimate"]
            /\ UNCHANGED activeUploads
       ELSE CheckLimit(c)
    /\ ServiceUnchanged

\* navigator.storage.estimate() resolves
EstimateResolved(c) ==
    /\ uploadPc[c] = "estimate"
    /\ CheckLimit(c)
    /\ ServiceUnchanged

\* checkDuplicateFile resolves
DuplicateChecked(c, isDuplicate) ==
    /\ uploadPc[c] = "duplicate"
    /\ IF isDuplicate
       THEN /\ uploadPc' = [uploadPc EXCEPT ![c] = "returned"]
            /\ activeUploads' = Untracked(c)
       ELSE /\ uploadPc' = [uploadPc EXCEPT ![c] = "path"]
            /\ UNCHANGED activeUploads
    /\ ServiceUnchanged

\* generateSecureFilePath resolves: the upload is tracked and started
PathGenerated(c) ==
    /\ uploadPc[c] = "path"
    /\ activeUploads' = activeUploads \cup {c}
    /\ uploadPc' = [uploadPc EXCEPT ![c] = "uploading"]
    /\ ServiceUnchanged

\* the upload task completes
UploadResolves(c) ==
    /\ uploadPc[c] = "uploading"
    /\ uploadPc' = [uploadPc EXCEPT ![c] = "returned"]
    /\ activeUploads' = Untracked(c)
    /\ ServiceUnchanged

\* the upload task fails or times out: the catch block awaits the cleanup
UploadRejects(c) ==
    /\ uploadPc[c] = "uploading"
    /\ uploadPc' = [uploadPc EXCEPT ![c] = "cleanup"]
    /\ UNCHANGED activeUploads
    /\ ServiceUnchanged

\* cleanupFailedUpload resolves: the error is rethrown
CleanupDone(c) ==
    /\ uploadPc[c] = "cleanup"
    /\ uploadPc' = [uploadPc EXCEPT ![c] = "thrown"]
    /\ activeUploads' = Untracked(c)
    /\ ServiceUnchanged

\* FileService.abortUpload(uploadId)
ServiceAbortUpload(c) ==
    /\ c \in activeUploads
    /\ activeUploads' = activeUploads \ {c}
    /\ UNCHANGED uploadPc
    /\ ServiceUnchanged

ServiceNext ==
    \/ \E c \in ServiceCalls, online \in BOOLEAN, hasEstimate \in BOOLEAN :
           UploadFileCalled(c, online, hasEstimate)
    \/ \E c \in ServiceCalls : EstimateResolved(c)
    \/ \E c \in ServiceCalls, isDuplicate \in BOOLEAN : DuplicateChecked(c, isDuplicate)
    \/ \E c \in ServiceCalls : PathGenerated(c)
    \/ \E c \in ServiceCalls : UploadResolves(c)
    \/ \E c \in ServiceCalls : UploadRejects(c)
    \/ \E c \in ServiceCalls : CleanupDone(c)
    \/ \E c \in ServiceCalls : ServiceAbortUpload(c)

ServiceInit ==
    /\ MatchIdle
    /\ SearchIdle
    /\ OtherIdle
    /\ BackendIdle

SpecService == ServiceInit /\ [][ServiceNext]_vars

(***************************************************************************)
(* FileService.uploadWithRetry: one call, each action the code between two *)
(* awaits.  Math.random() * 1000 is drawn from Jitters, in milliseconds.    *)
(***************************************************************************)

Jitters == {0, 250, 500, 750, 999}

\* what uploadFile throws to uploadWithRetry
AttemptErrors ==
    {EnhancedError("Upload timeout exceeded"),
     EnhancedError("No internet connection available"),
     EnhancedError("Maximum concurrent uploads exceeded. Please wait.")}

Min(a, b) == IF a <= b THEN a ELSE b

MaxRetryDelay == 10000

\* FileService.calculateRetryDelay(attempt), jitter being Math.random() * 1000
calculateRetryDelay(n, jitter) ==
    Min(RETRY_DELAY_BASE * 2 ^ (n - 1) + jitter, MaxRetryDelay)

RetryUnchanged ==
    UNCHANGED <<matchVars, envVars, searchVars, suggestVars, uiVars, uploadVars,
                serviceVars, simpleVars>>

\* uploadWithRetry(file) is called: the first uploadFile is awaited
UploadWithRetryCalled ==
    /\ retryPc = "idle"
    /\ attempt' = 1
    /\ retryPc' = "uploading"
    /\ UNCHANGED <<attemptErrors, retryDelays>>
    /\ RetryUnchanged

\* the awaited uploadFile resolves: its result is returned
AttemptResolves ==
    /\ retryPc = "uploading"
    /\ retryPc' = "returned"
    /\ UNCHANGED <<attempt, attemptErrors, retryDelays>>
    /\ RetryUnchanged

\* the catch block retries after every error
AttemptRejectsAnyError(err) ==
    /\ retryPc = "uploading"
    /\ attemptErrors' = Append(attemptErrors, err)
    /\ IF attempt < RETRY_ATTEMPTS
       THEN /\ \E jitter \in Jitters :
                  retryDelays' = Append(retryDelays, calculateRetryDelay(attempt, jitter))
            /\ retryPc' = "waiting"
       ELSE /\ retryPc' = "thrown"
            /\ UNCHANGED retryDelays
    /\ UNCHANGED attempt
    /\ RetryUnchanged

\* the awaited uploadFile throws err: the catch block
AttemptRejects(err) ==
    /\ retryPc = "uploading"
    /\ attemptErrors' = Append(attemptErrors, err)
    /\ IF attempt < RETRY_ATTEMPTS /\ isRetryableError(err)
       THEN /\ \E jitter \in Jitters :
                  retryDelays' = Append(retryDelays, calculateRetryDelay(attempt, jitter))
            /\ retryPc' = "waiting"
       ELSE /\ retryPc' = "thrown"
            /\ UNCHANGED retryDelays
    /\ UNCHANGED attempt
    /\ RetryUnchanged

\* the delay has passed: attempt++ and the loop condition
DelayElapsed ==
    /\ retryPc = "waiting"
    /\ attempt' = attempt + 1
    /\ retryPc' = IF attempt + 1 <= RETRY_ATTEMPTS THEN "uploading" ELSE "thrown"
    /\ UNCHANGED <<attemptErrors, retryDelays>>
    /\ RetryUnchanged

RetryNext ==
    \/ UploadWithRetryCalled
    \/ AttemptResolves
    \/ \E err \in AttemptErrors : AttemptRejects(err)
    \/ DelayElapsed

RetryInit ==
    /\ MatchIdle
    /\ SearchIdle
    /\ OtherIdle
    /\ BackendIdle

SpecRetry == RetryInit /\ [][RetryNext]_vars

(***************************************************************************)
(* SimpleFileService.uploadFileComplete and the placeholder document.  The *)
(* placeholder of call c has document id c.  The duplicate check of        *)
(* uploadFile is skipped: allowDuplicates defaults to true.                 *)
(***************************************************************************)

\* setDoc(placeholderRef, { ..., processingStatus: 'uploading' })
Placeholder == [exists |-> TRUE, processingStatus |-> "uploading", downloadURL |-> "none"]

\* updateDoc(placeholderRef, { processingStatus: 'uploaded', downloadURL })
Uploaded(document, url) ==
    [document EXCEPT !.processingStatus = "uploaded", !.downloadURL = url]

SimpleUnchanged ==
    UNCHANGED <<matchVars, envVars, searchVars, suggestVars, uiVars, uploadVars,
                serviceVars, retryVars>>

\* uploadFileComplete(file) is called: setDoc is awaited
UploadFileCompleteCalled(c) ==
    /\ simplePc[c] = "idle"
    /\ simplePc' = [simplePc EXCEPT ![c] = "creating"]
    /\ UNCHANGED placeholders
    /\ SimpleUnchanged

\* setDoc resolves or rejects
PlaceholderSet(c, ok) ==
    /\ simplePc[c] = "creating"
    /\ IF ok
       THEN /\ placeholders' = [placeholders EXCEPT ![c] = Placeholder]
            /\ simplePc' = [simplePc EXCEPT ![c] = "uploading"]
       ELSE /\ simplePc' = [simplePc EXCEPT ![c] = "thrown"]
            /\ UNCHANGED placeholders
    /\ SimpleUnchanged

\* this.uploadFile resolves with the download URL, or throws
SimpleUploadSettles(c, ok) ==
    /\ simplePc[c] = "uploading"
    /\ simplePc' = [simplePc EXCEPT ![c] = IF ok THEN "updating" ELSE "thrown"]
    /\ UNCHANGED placeholders
    /\ SimpleUnchanged

\* updateDoc resolves, or rejects and is only logged: the call returns
PlaceholderUpdated(c, ok) ==
    /\ simplePc[c] = "updating"
    /\ placeholders' = IF ok
                       THEN [placeholders EXCEPT ![c] = Uploaded(@, "url")]
                       ELSE placeholders
    /\ simplePc' = [simplePc EXCEPT ![c] = "returned"]
    /\ SimpleUnchanged

SimpleNext ==
    \/ \E c \in SimpleCalls : UploadFileCompleteCalled(c)
    \/ \E c \in SimpleCalls, ok \in BOOLEAN : PlaceholderSet(c, ok)
    \/ \E c \in SimpleCalls, ok \in BOOLEAN : SimpleUploadSettles(c, ok)
    \/ \E c \in SimpleCalls, ok \in BOOLEAN : PlaceholderUpdated(c, ok)

SimpleInit ==
    /\ MatchIdle
    /\ SearchIdle
    /\ OtherIdle
    /\ BackendIdle

SpecSimple == SimpleInit /\ [][SimpleNext]_vars

-----------------------------------------------------------------------------
(* Properties of the matcher and the locator, over SpecMatch *)

\* n occurs in h: stated on the elements, without slice or indexOf
OccursIn(n, h) ==
    \E i \in 0..(Len(h) - Len(n)) : \A k \in 1..Len(n) : h[i + k] = n[k]

\* s with its leading punctuation and white space removed: the suffix that
\* follows the longest prefix made of punctuation and white space only
StripLeading(s) ==
    LET cut == {p \in 0..Len(s) :
                   /\ \A k \in 1..p : IsPunct(s[k]) \/ IsSpace(s[k])
                   /\ (p < Len(s) => ~(IsPunct(s[p + 1]) \/ IsSpace(s[p + 1])))}
    IN  [k \in 1..(Len(s) - (CHOOSE p \in cut : TRUE)) |-> s[k + (CHOOSE p \in cut : TRUE)]]

\* s with its trailing punctuation and white space removed
StripTrailing(s) ==
    LET cut == {p \in 0..Len(s) :
                   /\ \A k \in (p + 1)..Len(s) : IsPunct(s[k]) \/ IsSpace(s[k])
                   /\ (p > 0 => ~(IsPunct(s[p]) \/ IsSpace(s[p])))}
    IN  [k \in 1..(CHOOSE p \in cut : TRUE) |-> s[k]]

\* u starts (ends) with q, case-insensitively
StartsWithCI(u, q) ==
    LET lu == ToLowerCase(u)
        lq == ToLowerCase(q)
    IN  Len(lq) <= Len(lu) /\ \A k \in 1..Len(lq) : lu[k] = lq[k]

EndsWithCI(u, q) ==
    LET lu == ToLowerCase(u)
        lq == ToLowerCase(q)
    IN  Len(lq) <= Len(lu) /\ \A k \in 1..Len(lq) : lu[Len(lu) - Len(lq) + k] = lq[k]

SentenceSpans(text) ==
    LET ss == splitIntoSentences(text) IN {ss[k] : k \in 1..Len(ss)}

\* the sentence "Hello world." scaled to one letter a word, and "Goodbye now."
HelloWorld == <<"A", " ", "b", ".">>
GoodbyeNow == <<"b", " ", "a", ".">>

\* C2: for every field value and non-blank query, matchByType in mode
\* 'contains' is true exactly when the lower-cased field contains the
\* lower-cased query as a substring.
C2_ContainsIffLowercaseSubstring ==
    mPc = "applied" =>
        (mMatched["contains"] <=> OccursIn(ToLowerCase(mQuery), ToLowerCase(mText)))

\* a 'contains' match that only case folding finds
C2_Witness ==
    /\ mPc = "applied"
    /\ mMatched["contains"]
    /\ ~OccursIn(mQuery, mText)

C5_LocatorMirrorsPredicate ==
    mPc = "applied" =>
        \A t \in MatchTypes : mMatched[t] <=> ~mInfo[t].isNull

-----------------------------------------------------------------------------
(* Properties of searchDocuments, over SpecSearch *)

\* the query holds no letter and no digit (so does its trimmed form, which
\* is then empty or punctuation only)
NoLetterOrDigit(query) == \A k \in 1..Len(query) : ~IsAlphaNum(query[k])

Accepted == ~NoLetterOrDigit(searchQuery)

Finished == pc = "done" /\ outcome = "returned"

Ids(ds) == {ds[k].id : k \in 1..Len(ds)}

\* the records of the corpus that satisfy the filter once hydration is over
Matching == {i \in 1..Len(docs) : IsCandidate(docs[i], Trim(searchQuery), searchType, searchField)}

\* the text a record is matched on when its hydration worked or was not needed
ExpectedText(i) ==
    IF store[i].textContent = <<>> /\ store[i].textContentStoragePath # "" /\ blobs[i].up
    THEN blobs[i].text
    ELSE store[i].textContent

\* C1: a query that is blank or holds no letter or digit yields the empty
\* sequence and never fails, whatever the corpus holds and whether or not
\* the document store is reachable; the store is not even asked.
C1_RejectedQueryReturnsEmpty ==
    NoLetterOrDigit(searchQuery) =>
        /\ outcome # "thrown"
        /\ fetches = 0
        /\ pc = "done" => (outcome = "returned" /\ result = <<>>)

\* a punctuation-only query answered while the store holds records and is
\* unreachable
C1_Witness ==
    /\ pc = "done"
    /\ searchQuery = <<" ", ".">>
    /\ ~storeUp
    /\ Len(store) > 0
    /\ outcome = "returned"
    /\ result = <<>>

\* C6: the sequence that is enriched is a permutation of the candidates:
\* exactly the candidates, each once.
C6_RankingIsPermutation ==
    (Finished /\ Accepted) =>
        /\ Len(ordered) = Len(candidates)
        /\ Ids(ordered) = Ids(candidates)

\* C7: when the engine returns no hit for a non-empty candidate set, the
\* enriched sequence is the candidates in their filtered order, which is
\* the order of the corpus (newest first), and it is not empty.
C7_FallbackOnNoHits ==
    (Finished /\ Accepted /\ ranked = <<>>) =>
        /\ ordered = candidates
        /\ Ids(candidates) = Matching
        /\ \A k \in 1..(Len(candidates) - 1) : candidates[k].id < candidates[k + 1].id
        /\ Matching # {} => ordered # <<>>

\* no hit for two candidates: both are returned, in corpus order
C7_Witness ==
    /\ Finished
    /\ ranked = <<>>
    /\ Len(candidates) = 2
    /\ Len(result) = 2
    /\ result[1].doc.id < result[2].doc.id

\* C8: at most 100 results, and exactly min(n, 100) when n records of the
\* corpus satisfy the filter.
C8_ResultCountIsMinOfMatchesAndCap ==
    (Finished /\ Accepted) =>
        /\ Len(result) <= ResultCap
        /\ Len(result) = (IF Cardinality(Matching) < ResultCap
                          THEN Cardinality(Matching) ELSE ResultCap)

WritesAreOwn ==
    /\ Len(docs) = Len(store)
    /\ Len(task) = Len(store)
    /\ \A i \in 1..Len(docs) :
          /\ docs[i] = [store[i] EXCEPT !.textContent = docs[i].textContent]
          /\ task[i] = "done" => (blobs[i].up /\ docs[i].textContent = blobs[i].text)
          /\ task[i] # "done" => docs[i] = store[i]
          /\ store[i].textContent # <<>> => (task[i] = "none" /\ docs[i] = store[i])

\* the filter runs on what the store and the blobs hold, whatever the order
\* in which the tasks ended
ResultIsOrderIndependent ==
    /\ \A i \in 1..Len(docs) : docs[i] = [store[i] EXCEPT !.textContent = ExpectedText(i)]
    /\ Ids(candidates) = Matching
    /\ \A k \in 1..Len(result) :
          result[k] = Enrich(ordered[k], Trim(searchQuery), searchType)

\* C10: under every interleaving of the hydration tasks, a task writes the
\* textContent of its own record only, a record with inline text is never
\* modified, the filter runs only once every task has settled, and the
\* result depends on the corpus and the blobs alone, not on the order in
\* which the tasks ended.
C10_HydrationWritesAreDisjoint ==
    /\ pc = "hydrating" => WritesAreOwn
    /\ (Finished /\ Accepted) =>
          /\ WritesAreOwn
          /\ \A i \in 1..Len(task) : task[i] \in {"none", "done", "failed"}
          /\ ResultIsOrderIndependent

\* the task of the second record has ended before the task of the first
C10_Witness ==
    /\ pc = "hydrating"
    /\ Len(task) >= 2
    /\ task[1] \in {"url", "body"}
    /\ task[2] = "done"
    /\ docs[2].textContent # store[2].textContent

\* record i of the corpus, as the filter sees it, satisfies the match
\* predicate on field f
MatchesOn(i, f) == matchByType(docs[i][f], Trim(searchQuery), searchType)

ResultIds == {result[k].doc.id : k \in 1..Len(result)}

\* the record has neither inline text nor a pointer to external text
ContentLess(i) == store[i].textContent = <<>> /\ store[i].textContentStoragePath = ""

\* C11: a record with neither inline textContent nor a
\* textContentStoragePath is never matched on content: it has no content
\* match information in any result, it is absent from the result of a
\* search with scope 'content', and under scope 'all' it is returned only
\* if its fileName, author or title matches.
C11_ContentLessNeverMatchedOnContent ==
    (Finished /\ Accepted) =>
        \A i \in 1..Len(store) : ContentLess(i) =>
            /\ docs[i].textContent = <<>>
            /\ ~MatchesOn(i, "textContent")
            /\ \A k \in 1..Len(result) : result[k].doc.id = i => result[k].info.isNull
            /\ searchField = "content" => (i \notin Ids(candidates) /\ i \notin ResultIds)
            /\ (searchField = "all" /\ i \in ResultIds) =>
                   (MatchesOn(i, "fileName") \/ MatchesOn(i, "author") \/ MatchesOn(i, "title"))

\* a content-less record returned under scope 'all' through its title, and
\* one left out under scope 'content'
C11_Witness ==
    /\ Finished
    /\ Accepted
    /\ \E i \in 1..Len(store) :
          /\ ContentLess(i)
          /\ \/ searchField = "all" /\ i \in ResultIds /\ MatchesOn(i, "title")
             \/ searchField = "content" /\ MatchesOn(i, "title") /\ i \notin ResultIds
                   /\ Len(result) > 0

\* C12: when the fetch of the corpus fails for an accepted query, the
\* search returns nothing: it ends by rejecting, and getDocs was called
\* once, never again.
C12_FetchFailurePropagatesNoRetry ==
    (Accepted /\ ~storeUp) =>
        /\ outcome # "returned"
        /\ result = <<>>
        /\ fetches <= 1
        /\ pc \in {"called", "fetching", "done"}
        /\ pc = "done" => (outcome = "thrown" /\ fetches = 1)

\* an accepted query whose corpus fetch failed, over a store that holds
\* records
C12_Witness ==
    /\ Accepted
    /\ ~storeUp
    /\ Len(store) > 0
    /\ pc = "done"
    /\ outcome = "thrown"
    /\ fetches = 1

\* the match predicate on the selected scope, field by field
SatisfiesScope(i) ==
    CASE searchField = "fileName" -> MatchesOn(i, "fileName")
      [] searchField = "author" -> MatchesOn(i, "author")
      [] searchField = "content" -> MatchesOn(i, "textContent")
      [] searchField = "all" ->
            \/ MatchesOn(i, "textContent")
            \/ MatchesOn(i, "fileName")
            \/ MatchesOn(i, "author")
            \/ MatchesOn(i, "title")

\* C13: the candidates handed to ranking are exactly the records of the
\* corpus that satisfy the match predicate on the selected scope (fileName
\* alone, author alone, the hydrated content alone, or any of content,
\* fileName, author and title under 'all'), each once and in corpus order;
\* no returned record fails the predicate on its scope.
C13_CandidatesAreExactlyScopeMatches ==
    (Finished /\ Accepted) =>
        /\ Ids(candidates) = {i \in 1..Len(docs) : SatisfiesScope(i)}
        /\ \A k \in 1..Len(candidates) : candidates[k] = docs[candidates[k].id]
        /\ \A k \in 1..(Len(candidates) - 1) : candidates[k].id < candidates[k + 1].id
        /\ \A i \in ResultIds : SatisfiesScope(i)

\* under scope 'all' a record is a candidate through its title alone, while
\* another record of the corpus is none
C13_Witness ==
    /\ Finished
    /\ Accepted
    /\ searchField = "all"
    /\ \E i \in Ids(candidates) :
          /\ MatchesOn(i, "title")
          /\ ~MatchesOn(i, "textContent") /\ ~MatchesOn(i, "fileName") /\ ~MatchesOn(i, "author")
    /\ Len(candidates) < Len(docs)

\* C16: a result with a content match on a record of pageCount >= 1 has an
\* integer estimatedPage with 1 <= estimatedPage <= pageCount, the match
\* percentage (0..100) scaled against pageCount: the least page n with
\* n / pageCount >= matchPercent / 100, and 1 for a match at the very
\* start; it is null when the record has no page count.
C16_EstimatedPageWithinPageCount ==
    (Finished /\ Accepted) =>
        \A k \in 1..Len(result) : ~result[k].info.isNull =>
            /\ result[k].info.matchPercent \in 0..100
            /\ result[k].doc.pageCount = 0 => result[k].estimatedPage.kind = "null"
            /\ result[k].doc.pageCount >= 1 =>
                  /\ result[k].estimatedPage.kind = "number"
                  /\ result[k].estimatedPage.value \in 1..result[k].doc.pageCount
                  /\ \/ result[k].estimatedPage.value = result[k].doc.pageCount
                     \/ 100 * result[k].estimatedPage.value
                            >= result[k].info.matchPercent * result[k].doc.pageCount
                  /\ \/ result[k].estimatedPage.value = 1
                     \/ 100 * (result[k].estimatedPage.value - 1)
                            < result[k].info.matchPercent * result[k].doc.pageCount

-----------------------------------------------------------------------------
(* Properties of the snippet, the highlighter and the sentence splitter,   *)
(* over SpecMatch                                                          *)

\* the offsets at which n occurs in h
OffsetsOf(n, h) ==
    {i \in 0..(Len(h) - Len(n)) : \A k \in 1..Len(n) : h[i + k] = n[k]}

\* what stands between the opening and the closing marker of a string that
\* holds each of them once
Wrapped(h) ==
    SubSeq(h, (CHOOSE i \in OffsetsOf(MarkOpen, h) : TRUE) + Len(MarkOpen) + 1,
              (CHOOSE i \in OffsetsOf(MarkClose, h) : TRUE))

\* the window of a located match: at most SnippetRadius characters before
\* the match start and after the match end, within the text
WindowIsClamped(info, text, q) ==
    /\ 0 <= info.start
    /\ info.start <= info.index
    /\ info.index - info.start <= SnippetRadius
    /\ info.end <= Len(text)
    /\ info.end - (info.index + Len(q)) <= SnippetRadius

\* an ellipsis stands at an end of the snippet exactly when the text goes
\* on beyond the window at that end
EllipsisWhereCut(info, text) ==
    /\ info.highlightedSnippet[1] = chEllipsis <=> info.start > 0
    /\ info.highlightedSnippet[Len(info.highlightedSnippet)] = chEllipsis
           <=> info.end < Len(text)

\* C17: on a successful locate the snippet window reaches at most 220
\* characters before the match start and after the match end, within the
\* text; the highlighted snippet holds the marker once, around the match
\* substring (as long as the query, and holding it case-insensitively); and
\* an ellipsis stands at each end where the window stops short of the end
\* of the text.
C17_SnippetWrapsTheMatchOnce ==
    mPc = "applied" =>
        \A t \in MatchTypes : ~mInfo[t].isNull =>
            /\ WindowIsClamped(mInfo[t], mText, mQuery)
            /\ Cardinality(OffsetsOf(MarkOpen, mInfo[t].highlightedSnippet)) = 1
            /\ Cardinality(OffsetsOf(MarkClose, mInfo[t].highlightedSnippet)) = 1
            /\ Len(Wrapped(mInfo[t].highlightedSnippet)) = Len(mQuery)
            /\ OccursIn(ToLowerCase(mQuery), ToLowerCase(Wrapped(mInfo[t].highlightedSnippet)))
            /\ EllipsisWhereCut(mInfo[t], mText)

\* the query occurs in one of the two markers, case-insensitively
MatchesMarkerSyntax(q) ==
    \/ \E p \in 0..(Len(MarkOpen) - Len(q)) :
          \A k \in 1..Len(q) : RegexFold(MarkOpen[p + k]) = RegexFold(q[k])
    \/ \E p \in 0..(Len(MarkClose) - Len(q)) :
          \A k \in 1..Len(q) : RegexFold(MarkClose[p + k]) = RegexFold(q[k])

\* C18: for a query that does not match the marker syntax, a second pass
\* of highlightAll over the output of the first wraps nothing that is
\* already wrapped: the output holds as many markers as after one pass.
C18_SecondPassAddsNoMarkers ==
    (mPc = "applied" /\ ~MatchesMarkerSyntax(mQuery)) =>
        /\ Cardinality(OffsetsOf(MarkOpen, mTwice)) = Cardinality(OffsetsOf(MarkOpen, mOnce))
        /\ Cardinality(OffsetsOf(MarkClose, mTwice)) = Cardinality(OffsetsOf(MarkClose, mOnce))

\* the spans come in increasing offset order and do not overlap
SpansInOrder ==
    /\ \A k \in 1..Len(mSentences) :
          0 <= mSentences[k].start /\ mSentences[k].start < mSentences[k].end
                                   /\ mSentences[k].end <= Len(mText)
    /\ \A k \in 1..(Len(mSentences) - 1) : mSentences[k].end <= mSentences[k + 1].start

\* the text of a span is input[start, end)
SpansAreSlices ==
    \A k \in 1..Len(mSentences) :
        mSentences[k].text =
            [j \in 1..(mSentences[k].end - mSentences[k].start) |-> mText[mSentences[k].start + j]]

\* a span ends at the end of the input or before white space, never
\* between a mark and the character that follows it
SpansEndAtBoundaries ==
    \A k \in 1..Len(mSentences) :
        mSentences[k].end < Len(mText) => IsSpace(mText[mSentences[k].end + 1])

\* every character that is not white space lies in a span
NoTextLost ==
    \A p \in 1..Len(mText) : ~IsSpace(mText[p]) =>
        \E k \in 1..Len(mSentences) : mSentences[k].start < p /\ p <= mSentences[k].end

\* a span of white space only is dropped (the span that is the whole input
\* is the fallback of the last line)
BlankSpansDropped ==
    \A k \in 1..Len(mSentences) :
        \/ \E j \in 1..Len(mSentences[k].text) : ~IsSpace(mSentences[k].text[j])
        \/ mSentences[k] = [text |-> mText, start |-> 0, end |-> Len(mText)]

\* an input without boundary is one span
WholeWhenNoBoundary ==
    (mText # <<>> /\ \A p \in 1..Len(mText) : ~IsTerminal(mText[p]) /\ mText[p] # "\n") =>
        mSentences = <<[text |-> mText, start |-> 0, end |-> Len(mText)]>>

\* C20: splitIntoSentences yields spans in increasing, non-overlapping
\* offset order, each with text input[start, end); a mark . ! ? ends a span
\* only before white space or at the end of the input, so the text around
\* a mark followed by another character (as in "a.b") stays in one span and
\* no text other than white space is lost; spans of white space only are
\* dropped; an input without boundary is one span.
C20_SentenceSpansCoverTheText ==
    mPc = "applied" =>
        /\ SpansInOrder
        /\ SpansAreSlices
        /\ SpansEndAtBoundaries
        /\ NoTextLost
        /\ BlankSpansDropped
        /\ WholeWhenNoBoundary
        /\ mText = <<"a", ".", "b">> =>
               mSentences = <<[text |-> mText, start |-> 0, end |-> 3]>>

-----------------------------------------------------------------------------
(* Properties of getSearchSuggestions, over SpecSuggest *)

\* the records whose file name contains the trimmed partial query,
\* case-insensitively
NameMatches ==
    {i \in 1..Len(store) :
        /\ Trim(sgPartial) # <<>>
        /\ OccursIn(ToLowerCase(Trim(sgPartial)), ToLowerCase(store[i].fileName))}

\* the k-th of them in corpus order
NameMatch(k) == CHOOSE i \in NameMatches : Cardinality({j \in NameMatches : j < i}) = k - 1

\* C15: getSearchSuggestions returns at most 5 suggestions: the file names
\* of the first records, in corpus (newest-first) order, whose file name
\* contains the trimmed partial query case-insensitively; no text is
\* fetched and nothing is ranked; a blank partial query returns the empty
\* sequence, without a fetch of the corpus.
C15_SuggestionsAreFirstFiveNameMatches ==
    /\ task = <<>> /\ docs = <<>> /\ ranked = <<>>
    /\ Trim(sgPartial) = <<>> => (fetches = 0 /\ sgOutcome # "thrown")
    /\ (sgPc = "done" /\ sgOutcome = "returned") =>
          /\ Len(sgResult) <= SuggestCap
          /\ Len(sgResult) = (IF Cardinality(NameMatches) < SuggestCap
                               THEN Cardinality(NameMatches) ELSE SuggestCap)
          /\ \A k \in 1..Len(sgResult) :
                sgResult[k] = [suggestion |-> store[NameMatch(k)].fileName]
          /\ Trim(sgPartial) = <<>> => sgResult = <<>>

\* six records match, in two spellings, after a padded query: the first
\* five are suggested
C15_Witness ==
    /\ sgPc = "done"
    /\ sgOutcome = "returned"
    /\ sgPartial # Trim(sgPartial)
    /\ Cardinality(NameMatches) = 6
    /\ Len(sgResult) = 5
    /\ \E k \in 1..4 : sgResult[k] # sgResult[k + 1]

-----------------------------------------------------------------------------
(* Properties of AdvancedSearch, over SpecUi *)

AllRequestsSettled == \A k \in 1..Len(uiRequests) : uiRequests[k].status # "pending"

\* the results the search issued last can have given
LastIssuedOutcomes ==
    IF storeUp
    THEN SearchOutcomes(store, Trim(uiRequests[Len(uiRequests)].query), "contains", "all")
    ELSE {<<>>}

\* C14: two searches issued back-to-back: once both have settled, the
\* results handed over last, which the page shows, are those of the search
\* issued last, in whatever order the two completed.
C14_LastIssuedSearchIsShown ==
    (Len(uiRequests) >= 2 /\ AllRequestsSettled /\ uiShownOf # 0) =>
        uiResults \in LastIssuedOutcomes

-----------------------------------------------------------------------------
(* Properties of the upload queue, over SpecUpload *)

OverTenMB(file) == file.size > 10 * 1024 * 1024

\* C19: no file larger than 10 MB is accepted for upload: whatever its MIME
\* type, validation marks a file of more than 10*1024*1024 bytes invalid
\* and addFiles puts no such file in the queue.
C19_NoFileOverTenMBAccepted ==
    /\ \A k \in 1..Len(addResult.validFiles) : ~OverTenMB(addResult.validFiles[k])
    /\ \A k \in 1..Len(files) : ~OverTenMB(files[k].file)

-----------------------------------------------------------------------------
(* Properties of the uploads of the hook, over SpecQueue *)

Uploading == {k \in 1..Len(files) : files[k].status = "uploading"}

InFlight == {calls[k].fileObj.id : k \in 1..Len(calls)}

\* C21: the uploads of a batch run one after the other: at every moment at
\* most one file of the queue has an upload attempt in flight, that is, at
\* most one file is 'uploading' and activeUploadsRef and the pending service
\* calls name at most one file, retries started by the timer included.
C21_AtMostOneUploadInFlight ==
    /\ Cardinality(Uploading) <= 1
    /\ Cardinality(activeUploadsRef) <= 1
    /\ Cardinality(InFlight) <= 1

\* the status of the file in the queue
StatusOf(id) ==
    IF \E k \in 1..Len(files) : files[k].id = id
    THEN files[CHOOSE k \in 1..Len(files) : files[k].id = id].status
    ELSE "removed"

\* a retry is pending only after a retryable error, and no file, pending
\* retry or attempt carries more retries than maxRetries
RetriesBounded ==
    /\ \A k \in 1..Len(timers) :
          /\ isRetryableError(timers[k].cause)
          /\ timers[k].fileObj.retryCount <= timers[k].fileObj.maxRetries
    /\ \A k \in 1..Len(files) : files[k].retryCount <= files[k].maxRetries
    /\ \A k \in 1..Len(calls) : calls[k].fileObj.retryCount + 1 <= calls[k].fileObj.maxRetries + 1

BatchCalls == {k \in 1..Len(calls) : calls[k].inBatch}

\* uploadAllFiles finishes in this step
BatchEnds == isUploading /\ ~isUploading'

\* C24: uploadAllFiles uploads all pending files: when it finishes, its loop
\* has nothing left to upload, also after an earlier file of the batch has
\* failed for good, and isUploading is false whenever no uploadAllFiles is
\* waiting for an upload.
C24_BatchUploadsEveryPendingFile ==
    /\ [](BatchCalls = {} => ~isUploading)
    /\ [][BatchEnds => \A k \in BatchCalls : calls[k].rest = <<>>]_vars

\* C25: once abortUpload(fileId) has returned true and set the file
\* 'cancelled', the file never becomes 'uploading', 'retrying' or
\* 'completed' (so uploadStats.completed is not incremented for it).
C25_CancelledStaysCancelled ==
    \A id \in aborted : StatusOf(id) \notin {"uploading", "retrying", "completed"}

CountWithStatus(status) == Len(WithStatusOf(files, status))

\* C26: uploadStats agrees with the queue after any sequence of hook
\* operations: total is the number of files in the queue, completed the
\* number of 'completed' files, failed the number of 'error' files, and no
\* counter is negative.
C26_StatsAgreeWithQueue ==
    /\ uploadStats.total = Len(files)
    /\ uploadStats.completed = CountWithStatus("completed")
    /\ uploadStats.failed = CountWithStatus("error")
    /\ uploadStats.total >= 0 /\ uploadStats.completed >= 0 /\ uploadStats.failed >= 0

-----------------------------------------------------------------------------
(* Properties of addFiles, over SpecUpload *)

\* addFiles refuses the selection: offline, an invalid file or a batch
\* error, or a security flag (allowSecurityWarnings is not set)
Refused(selectedFiles) ==
    \/ ~isOnline
    \/ validateFiles(selectedFiles, MaxBatchSize, MaxFileCount).hasErrors
    \/ validateFiles(selectedFiles, MaxBatchSize, MaxFileCount).hasSecurity

\* the step appended every selected file as a fresh pending entry
AppendedAll(selectedFiles) ==
    /\ Len(files') = Len(files) + Len(selectedFiles)
    /\ SubSeq(files', 1, Len(files)) = files
    /\ \A k \in 1..Len(selectedFiles) :
          /\ files'[Len(files) + k].file = selectedFiles[k]
          /\ files'[Len(files) + k].status = "pending"
          /\ files'[Len(files) + k].retryCount = 0
    /\ uploadStats'.total = uploadStats.total + Len(selectedFiles)

\* C27: addFiles is all-or-nothing: offline, with an invalid file or a batch
\* error, or with a security flag it returns success:false and leaves the
\* queue and uploadStats as they were; otherwise it returns success and
\* appends every selected file with status 'pending' and retryCount 0, and
\* uploadStats.total grows by the number of files added.
C27_AddFilesAllOrNothing ==
    [][\A selectedFiles \in Selections :
          AddFiles(selectedFiles) =>
              IF Refused(selectedFiles)
              THEN /\ ~addResult'.success
                   /\ files' = files
                   /\ uploadStats' = uploadStats
              ELSE /\ addResult'.success
                   /\ addResult'.addedCount = Len(selectedFiles)
                   /\ AppendedAll(selectedFiles)]_vars

\* a batch with an invalid file has been refused after another was queued
C27_Witness ==
    /\ addResult.called
    /\ ~addResult.success
    /\ addResult.invalidCount > 0
    /\ Len(addResult.validFiles) > 0
    /\ Len(files) > 0
    /\ uploadStats.total = Len(files)

-----------------------------------------------------------------------------
(* Properties of FileService, over SpecService *)

ServiceSettled == {"returned", "thrown", "rejected"}

\* C23: FileService never tracks more than MAX_CONCURRENT_UPLOADS uploads,
\* whatever the interleaving of concurrent uploadFile calls, and a call
\* that has returned or thrown has no entry left in activeUploads.
C23_ActiveUploadsWithinLimit ==
    /\ Cardinality(activeUploads) <= MAX_CONCURRENT_UPLOADS
    /\ \A c \in ServiceCalls : uploadPc[c] \in ServiceSettled => c \notin activeUploads

-----------------------------------------------------------------------------
(* Properties of FileService.uploadWithRetry, over SpecRetry *)

\* C28: uploadWithRetry makes at most RETRY_ATTEMPTS attempts, a further
\* attempt only after a retryable error; it returns at the first attempt
\* that succeeds and otherwise throws after its last attempt, which is the
\* third one or one that failed with an error that is not retryable; the
\* delay before each retry is at most 10000 ms.
C28_RetryIsBounded ==
    /\ attempt <= RETRY_ATTEMPTS
    /\ Len(attemptErrors) <= attempt
    /\ \A k \in 1..Len(attemptErrors) : k < attempt => isRetryableError(attemptErrors[k])
    /\ retryPc = "returned" => Len(attemptErrors) = attempt - 1
    /\ retryPc = "thrown" =>
          /\ Len(attemptErrors) = attempt
          /\ attempt = RETRY_ATTEMPTS \/ ~isRetryableError(attemptErrors[attempt])
    /\ Len(retryDelays) <= RETRY_ATTEMPTS - 1
    /\ \A k \in 1..Len(retryDelays) : retryDelays[k] <= 10000

\* the call has thrown after three failed attempts and two delays
C28_Witness ==
    /\ retryPc = "thrown"
    /\ attempt = RETRY_ATTEMPTS
    /\ Len(attemptErrors) = 3
    /\ Len(retryDelays) = 2

-----------------------------------------------------------------------------
(* Properties of SimpleFileService.uploadFileComplete, over SpecSimple *)

StuckUploading(c) == placeholders[c].exists /\ placeholders[c].processingStatus = "uploading"

\* C29: uploadFileComplete creates the placeholder with processingStatus
\* 'uploading' before the upload starts, and once the call has settled the
\* placeholder is no longer 'uploading': after a successful upload it is
\* 'uploaded' with the download URL, and after a failed upload no
\* placeholder is left in 'uploading'.
C29_PlaceholderLeavesUploading ==
    \A c \in SimpleCalls :
        /\ simplePc[c] \in {"uploading", "updating"} => StuckUploading(c)
        /\ simplePc[c] = "returned" =>
              /\ placeholders[c].processingStatus = "uploaded"
              /\ placeholders[c].downloadURL = "url"
        /\ simplePc[c] = "thrown" => ~StuckUploading(c)

=============================================================================
